---- MODULE Spec2Model ----
(***************************************************************************)
(* Music-Combinators backend: the relational store (users, profiles,       *)
(* creator_applications, tracks, reels, likes), the object storage bucket  *)
(* and the request handlers that read and write them.  Every handler is    *)
(* cut at its awaits on the store: one action per round trip, so that      *)
(* concurrent requests interleave exactly where the code can be            *)
(* interleaved.  Database triggers and constraints are part of the write   *)
(* that fires them.                                                        *)
(***************************************************************************)
EXTENDS Integers, FiniteSets, Sequences, TLC

\* ---------------------------------------------------------------- bounds
MaxLikeId == 3       \* like rows ever inserted (uuid_generate_v4 draws)
MaxAppId == 3        \* creator_applications rows ever inserted
MaxClock == 3        \* timestamps ever taken by the admin writes
MaxObjects == 6      \* last uuid at which a create request may still start
MaxFollowId == 3    \* rows ever inserted into follows
MaxPlays == 2        \* plays / views counted per item
MaxCount == 3        \* largest in-range batch count tried

\* ------------------------------------------------------------- universes
UserIds == {"a1", "u1", "u2", "u3"}
Slots == {1, 2}      \* concurrent requests in flight per handler family
Listeners == {"u1", "u2", "u3"}
NULL == 0            \* SQL NULL / JS null for ids, timestamps and locators
NoUser == "none"     \* NULL in a column that references users(id)

\* user_role, user_status, application_status, content_type enums
USER_ROLES == {"listener", "creator", "admin"}
USER_STATUSES == {"waitlisted", "active", "banned"}
APPLICATION_STATUSES == {"pending", "approved", "rejected"}
CONTENT_TYPES == {"track", "reel"}

VARIABLES
  users,         \* users table: id -> [role, status, approved_at, ban_reason, banned_at, created_at]
  profiles,      \* profiles table: id -> [username, display_name]
  applications,  \* creator_applications table: id -> row
  tracks,        \* tracks table: id -> row
  reels,         \* reels table: id -> row
  likes,         \* likes table: set of rows [id, user_id, content_type, content_id]
  storage,       \* keys of the objects held by the upload bucket
  clock,         \* new Date() of the store-stamping writes
  likeSeq,       \* next likes.id
  appSeq,        \* next creator_applications.id
  objSeq,        \* next uuid of a content row / next object key of the bucket
  toggleReq,     \* in-flight toggleLike calls
  appReq,        \* in-flight submitCreatorApplication / review / approve / reject calls
  batchReq,      \* in-flight batchApproveUsers calls
  profileReq,    \* in-flight updateUserProfile calls
  adminResp,     \* response of the last single-statement admin handler
  createResp,    \* outcome and gateway log of the last createTrack/createReel
  contentResp,   \* outcome and gateway log of the last update/delete of a track or reel
  follows,       \* follows table: set of rows [id, follower_id, following_id]
  followSeq,     \* next follows.id
  followReq,     \* in-flight followUser / unfollowUser calls
  listResp,      \* answer of the last listing or counter request
  emailClient,   \* emailService: whether the mail client was configured at start
  outbox,        \* notification attempts handed to emailService: [kind, to, failed]
  NODE_ENV,      \* process.env.NODE_ENV of the server process
  authResp,      \* outcome of the last request to a route behind authenticate
  pairLog        \* record of a client's two successive toggleLike calls

vars == <<users, profiles, applications, tracks, reels, likes, storage, clock,
          likeSeq, appSeq, objSeq, toggleReq, appReq, batchReq,
          profileReq, adminResp, createResp, contentResp, follows, followSeq, followReq,
          listResp, emailClient, outbox, NODE_ENV, authResp, pairLog>>

\* the follows table and the requests on it
socialVars == <<follows, followSeq, followReq>>

\* the answer of the read handlers
readVars == <<listResp>>

\* the mail client and the notification attempts
mailVars == <<emailClient, outbox>>

\* the runtime environment and the answer of the authenticated routes
authVars == <<NODE_ENV, authResp>>

\* what a client that toggles twice in a row has seen
histVars == <<pairLog>>

dbVars == <<users, profiles, applications, tracks, reels, likes, storage, clock,
            likeSeq, appSeq, objSeq>>
notToggle == <<appReq, batchReq, profileReq, adminResp, createResp,
               contentResp, socialVars, readVars, mailVars, authVars, histVars>>
notApp == <<toggleReq, batchReq, profileReq, adminResp, createResp,
            contentResp, socialVars, readVars, mailVars, authVars, histVars>>
notBatch == <<toggleReq, appReq, profileReq, adminResp, createResp,
              contentResp, socialVars, readVars, mailVars, authVars, histVars>>
notProfile == <<toggleReq, appReq, batchReq, adminResp, createResp,
                contentResp, socialVars, readVars, mailVars, authVars, histVars>>
notCreate == <<toggleReq, appReq, batchReq, profileReq, adminResp,
               contentResp, socialVars, readVars, mailVars, authVars, histVars>>

\* ------------------------------------------------------------------ rows
UserRow(role, status, created) ==
  [role |-> role, status |-> status, approved_at |-> NULL, ban_reason |-> NULL,
   banned_at |-> NULL, created_at |-> created]

TrackRow(owner, title, audio, cover, created) ==
  [user_id |-> owner, title |-> title, audio_url |-> audio, cover_url |-> cover,
   is_active |-> TRUE, like_count |-> 0, play_count |-> 0, created_at |-> created]

ReelRow(owner, video, created) ==
  [user_id |-> owner, video_url |-> video, is_active |-> TRUE, like_count |-> 0,
   view_count |-> 0, created_at |-> created]

\* ----------------------------------------------------------- notifications
NotifyOutcome_rethrows(result, sendFails) == IF sendFails THEN "emailError" ELSE result

\* try { ... await emailService.sendXxxEmail(...) } catch (emailError) { console.error }:
\* a failed send is logged and the handler's outcome stays what it was
NotifyOutcome(result, sendFails) == result

\* if (emailService.isConfigured() && email) await emailService.sendXxxEmail(email, ...):
\* the outbox after a handler reached its notification step for account to
Notify(kind, to, emailKnown, sendFails) ==
  IF emailClient /\ emailKnown
  THEN outbox \cup {[kind |-> kind, to |-> to, failed |-> sendFails]}
  ELSE outbox

\* frame of the application handlers that reach a notification step
notAppSend == <<toggleReq, batchReq, profileReq, adminResp, createResp, contentResp,
                socialVars, readVars, emailClient, authVars, histVars>>

\* ------------------------------------------------------------ middleware
requireActive_row_exists(uid) == IF uid \notin DOMAIN users THEN "User not found" ELSE "ok"

\* requireActive: the caller's row must exist with status active
requireActive(uid) ==
  IF uid \notin DOMAIN users THEN "User not found"
  ELSE IF users[uid].status # "active"
       THEN IF users[uid].status = "waitlisted" THEN "Account pending approval"
            ELSE IF users[uid].status = "banned" THEN "Account has been banned"
            ELSE "Account not active"
       ELSE "ok"

\* requireRole: the caller's row must exist with one of the allowed roles
requireRole(uid, allowedRoles) ==
  IF uid \notin DOMAIN users THEN "User not found"
  ELSE IF users[uid].role \notin allowedRoles THEN "Insufficient permissions"
  ELSE "ok"

\* ------------------------------------------------------------------ likes
LikeRows_of_any_user(uid, ctype, cid) ==
  {l \in likes : l.content_type = ctype /\ l.content_id = cid}

\* rows of likes matching (user_id, content_type, content_id)
LikeRows(uid, ctype, cid) ==
  {l \in likes : l.user_id = uid /\ l.content_type = ctype /\ l.content_id = cid}

LikesUniqueOk_no_constraint(uid, ctype, cid) == TRUE

\* UNIQUE(user_id, content_type, content_id) on likes
LikesUniqueOk(uid, ctype, cid) == LikeRows(uid, ctype, cid) = {}

update_like_count_off_by_two(tbl, ctype, TG_OP, row) ==
  IF row.content_type = ctype /\ row.content_id \in DOMAIN tbl
  THEN [tbl EXCEPT ![row.content_id].like_count =
          IF TG_OP = "INSERT" THEN @ + 1 ELSE @ - 2]
  ELSE tbl

\* trigger update_like_count, AFTER INSERT OR DELETE ON likes FOR EACH ROW,
\* applied to one content table (tracks for 'track', reels for 'reel')
update_like_count(tbl, ctype, TG_OP, row) ==
  IF row.content_type = ctype /\ row.content_id \in DOMAIN tbl
  THEN [tbl EXCEPT ![row.content_id].like_count =
          IF TG_OP = "INSERT" THEN @ + 1 ELSE @ - 1]
  ELSE tbl

\* no pair of calls under way
NoPair == [calls |-> 0, user_id |-> NoUser, content_type |-> "none", content_id |-> NULL,
           before |-> {}, like_count |-> 0, liked |-> <<>>]

IdleToggle ==
  [pc |-> "idle", user_id |-> "a1", content_type |-> "track", content_id |-> NULL,
   existingLike |-> NULL, result |-> "none"]

ToggleInputTypes == {"track", "reel", "album"}

\* ids a client may put in /:id/like: the rows that exist, of either table, so
\* that (track, id of a reel) is a pair that designates no content item
ContentIdInputs == DOMAIN tracks \cup DOMAIN reels

\* route guard, content-type validation and the SELECT of the existing like
toggleLike_select(r, uid, ctype, cid) ==
  /\ toggleReq[r].pc \in {"idle", "done"}
  /\ LET base == [IdleToggle EXCEPT !.user_id = uid, !.content_type = ctype,
                                     !.content_id = cid]
         found == IF ctype \in CONTENT_TYPES THEN LikeRows(uid, ctype, cid) ELSE {}
     IN toggleReq' = [toggleReq EXCEPT ![r] =
          IF requireActive(uid) # "ok"
            THEN [IdleToggle EXCEPT !.pc = "done", !.result = requireActive(uid)]
          ELSE IF ctype \notin CONTENT_TYPES
            THEN [IdleToggle EXCEPT !.pc = "done", !.result = "ValidationError"]
          ELSE [base EXCEPT !.pc = "write",
                  !.existingLike = IF found = {} THEN NULL
                                   ELSE (CHOOSE l \in found : TRUE).id]]
  /\ UNCHANGED dbVars

\* the first step of a toggleLike call
toggleLike_read(r, uid, ctype, cid) ==
  /\ toggleLike_select(r, uid, ctype, cid)
  /\ UNCHANGED notToggle

\* DELETE ... WHERE id = existingLike.id, with the trigger on each deleted row
toggleLike_delete(r) ==
  /\ toggleReq[r].pc = "write"
  /\ toggleReq[r].existingLike # NULL
  /\ \E dbError \in BOOLEAN :
       LET gone == {l \in likes : l.id = toggleReq[r].existingLike} IN
       IF dbError
       THEN /\ UNCHANGED <<likes, tracks, reels>>
            /\ toggleReq' = [toggleReq EXCEPT ![r] =
                 [IdleToggle EXCEPT !.pc = "done", !.result = "Failed to unlike content"]]
       ELSE /\ likes' = likes \ gone
            /\ tracks' = IF gone = {} THEN tracks
                         ELSE update_like_count(tracks, "track", "DELETE", CHOOSE l \in gone : TRUE)
            /\ reels' = IF gone = {} THEN reels
                        ELSE update_like_count(reels, "reel", "DELETE", CHOOSE l \in gone : TRUE)
            /\ toggleReq' = [toggleReq EXCEPT ![r] =
                 [IdleToggle EXCEPT !.pc = "done", !.result = "unliked"]]
  /\ UNCHANGED <<users, profiles, applications, storage, clock, likeSeq, appSeq, objSeq>>

\* the unlike branch of a toggleLike call
toggleLike_unlike(r) ==
  /\ toggleLike_delete(r)
  /\ UNCHANGED notToggle

\* INSERT INTO likes, rejected by the unique constraint or a store failure
toggleLike_insert(r) ==
  /\ toggleReq[r].pc = "write"
  /\ toggleReq[r].existingLike = NULL
  /\ \E dbError \in BOOLEAN :
       LET q == toggleReq[r]
           row == [id |-> likeSeq, user_id |-> q.user_id,
                   content_type |-> q.content_type, content_id |-> q.content_id]
       IN
       IF dbError \/ ~LikesUniqueOk(q.user_id, q.content_type, q.content_id)
          \/ likeSeq > MaxLikeId
       THEN /\ UNCHANGED <<likes, tracks, reels, likeSeq>>
            /\ toggleReq' = [toggleReq EXCEPT ![r] =
                 [IdleToggle EXCEPT !.pc = "done", !.result = "Failed to like content"]]
       ELSE /\ likes' = likes \cup {row}
            /\ likeSeq' = likeSeq + 1
            /\ tracks' = update_like_count(tracks, "track", "INSERT", row)
            /\ reels' = update_like_count(reels, "reel", "INSERT", row)
            /\ toggleReq' = [toggleReq EXCEPT ![r] =
                 [IdleToggle EXCEPT !.pc = "done", !.result = "liked"]]
  /\ UNCHANGED <<users, profiles, applications, storage, clock, appSeq, objSeq>>

\* the like branch of a toggleLike call
toggleLike_like(r) ==
  /\ toggleLike_insert(r)
  /\ UNCHANGED notToggle


\* ----------------------------------------------------- creator applications

NullText == "NULL"   \* NULL in a text column
NoNotes == ""        \* admin_notes?.trim() || '' of a review without notes

\* a text of the request body, by what its length and trim() depend on: the
\* white space it starts and ends with and the characters in between
Str(lead, core, trail) == [lead |-> lead, core |-> core, trail |-> trail]

\* String.prototype.length
StrLen(s) == s.lead + s.core + s.trail

\* String.prototype.trim
StrTrim(s) == IF s.core = 0 THEN Str(0, 0, 0) ELSE Str(0, s.core, 0)

\* the body fields submitApplication hands to the service
TrimmedBody(body) ==
  [artist_name |-> StrTrim(body.artist_name),
   application_reason |-> StrTrim(body.application_reason)]

NoBody == [artist_name |-> Str(0, 0, 0), application_reason |-> Str(0, 0, 0)]

AppRow(uid, data) ==
  [user_id |-> uid, status |-> "pending", reviewed_by |-> NoUser, admin_notes |-> NullText,
   artist_name |-> data.artist_name, application_reason |-> data.application_reason]

IdleApp == [pc |-> "idle", op |-> "none", caller |-> NoUser, app |-> NULL,
            decision |-> "none", notes |-> NoNotes, result |-> "none", body |-> NoBody]

AppDone(op, app, result) ==
  [IdleApp EXCEPT !.pc = "done", !.op = op, !.app = app, !.result = result]

\* the fields of an application stored earlier
StoredBody == [artist_name |-> Str(0, 2, 0), application_reason |-> Str(0, 50, 0)]

\* request bodies tried: lengths of artist_name and application_reason
SubmitBodies ==
  {[artist_name |-> Str(0, 2, 0), application_reason |-> Str(0, 50, 0)],
   [artist_name |-> Str(0, 2, 0), application_reason |-> Str(0, 40, 0)]}

\* submitApplication's field-length validation
submitApplication_valid(body) ==
  /\ StrLen(body.artist_name) # 0 /\ StrLen(body.application_reason) # 0
  /\ ~(StrLen(body.artist_name) < 2 \/ StrLen(body.artist_name) > 100)
  /\ ~(StrLen(body.application_reason) < 50 \/ StrLen(body.application_reason) > 2000)

\* the caller's rows with status pending or approved
ActiveApplications(uid) ==
  {a \in DOMAIN applications :
     applications[a].user_id = uid /\ applications[a].status \in {"pending", "approved"}}

\* POST /api/applications up to the SELECT ... maybeSingle() of an existing
\* pending or approved application
submitCreatorApplication_check(r, uid, body) ==
  /\ appReq[r].pc \in {"idle", "done"}
  /\ LET existing == ActiveApplications(uid) IN
     appReq' = [appReq EXCEPT ![r] =
       IF requireActive(uid) # "ok" THEN AppDone("submit", NULL, requireActive(uid))
       ELSE IF ~submitApplication_valid(body) THEN AppDone("submit", NULL, "ValidationError")
       ELSE IF Cardinality(existing) > 1
         THEN AppDone("submit", NULL, "Failed to check existing applications")
       ELSE IF existing # {}
         THEN IF applications[CHOOSE a \in existing : TRUE].status = "pending"
              THEN AppDone("submit", NULL, "You already have a pending application")
              ELSE AppDone("submit", NULL, "You are already a creator")
       ELSE [IdleApp EXCEPT !.pc = "insert", !.op = "submit", !.caller = uid,
                            !.body = TrimmedBody(body)]]
  /\ UNCHANGED <<dbVars, notApp>>

\* INSERT INTO creator_applications (status pending)
submitCreatorApplication_insert(r) ==
  /\ appReq[r].pc = "insert"
  /\ \E dbError \in BOOLEAN :
       IF dbError \/ appSeq > MaxAppId
       THEN /\ UNCHANGED <<applications, appSeq>>
            /\ appReq' = [appReq EXCEPT ![r] =
                  AppDone("submit", NULL, "Failed to submit application")]
       ELSE /\ applications' = applications @@ (appSeq :> AppRow(appReq[r].caller, appReq[r].body))
            /\ appSeq' = appSeq + 1
            /\ appReq' = [appReq EXCEPT ![r] = AppDone("submit", appSeq, "submitted")]
  /\ UNCHANGED <<users, profiles, tracks, reels, likes, storage, clock, likeSeq, objSeq, notApp>>

\* ids an admin may put in the review routes: the rows that exist and one
\* that names nothing
NoSuchId == 99
ApplicationIdInputs == DOMAIN applications \cup {NoSuchId}

\* accounts that submit: the admin, an active listener, a waitlisted listener
Submitters == {"a1", "u2", "u3"}

\* accounts that call the review routes: the admin and a listener
Reviewers == {"a1", "u2"}

ReviewOps == {"review", "approve", "reject"}

\* the decision each route carries: the body's for PUT /:id/review, fixed for
\* the admin router's approve and reject
ReviewDecisions(op) ==
  IF op = "review" THEN {"approved", "rejected"}
  ELSE IF op = "approve" THEN {"approved"} ELSE {"rejected"}

\* guards of the routes: PUT /api/applications/:id/review runs requireActive
\* then requireRole(['admin']); the admin router runs requireRole(['admin'])
ReviewGuard(op, admin) ==
  IF op = "review" /\ requireActive(admin) # "ok" THEN requireActive(admin)
  ELSE requireRole(admin, {"admin"})

\* the SELECT of the application and the status !== 'pending' test of
\* reviewApplication, approveCreatorApplication and rejectCreatorApplication
review_fetch(r, op, admin, app, decision, notes) ==
  /\ appReq[r].pc \in {"idle", "done"}
  /\ decision \in ReviewDecisions(op)
  /\ appReq' = [appReq EXCEPT ![r] =
       IF ReviewGuard(op, admin) # "ok" THEN AppDone(op, NULL, ReviewGuard(op, admin))
       ELSE IF app \notin DOMAIN applications
         THEN AppDone(op, NULL, IF op = "review" THEN "Application not found" ELSE "fetchError")
       ELSE IF applications[app].status # "pending"
         THEN AppDone(op, NULL,
                IF op = "review" THEN "Application has already been reviewed"
                ELSE IF op = "approve" THEN "Application already processed"
                ELSE "Application not found or already processed")
       ELSE [IdleApp EXCEPT !.pc = "updateApp", !.op = op, !.caller = admin,
                            !.app = app, !.decision = decision,
                            !.notes = IF op = "review" THEN notes ELSE NoNotes]]
  /\ UNCHANGED <<dbVars, notApp>>

\* UPDATE creator_applications SET status = decision ... WHERE id = applicationId
\* of reviewApplication and approveCreatorApplication
review_updateApp(r) ==
  /\ appReq[r].pc = "updateApp"
  /\ appReq[r].op \in {"review", "approve"}
  /\ \E dbError \in BOOLEAN :
       LET q == appReq[r] IN
       IF dbError
       THEN /\ UNCHANGED applications
            /\ appReq' = [appReq EXCEPT ![r] =
                  AppDone(q.op, q.app, "Failed to update application status")]
       ELSE /\ applications' = [applications EXCEPT
                  ![q.app].status = q.decision,
                  ![q.app].reviewed_by = IF q.op = "review" THEN q.caller ELSE @,
                  ![q.app].admin_notes = IF q.op = "review" THEN q.notes ELSE @]
            /\ appReq' = [appReq EXCEPT ![r] =
                  IF q.decision = "approved" THEN [q EXCEPT !.pc = "updateRole"]
                  ELSE AppDone(q.op, q.app, "rejected")]
  /\ UNCHANGED <<users, profiles, tracks, reels, likes, storage, clock, likeSeq, appSeq,
                 objSeq, notApp>>

\* UPDATE creator_applications SET status = 'rejected' ... WHERE id = applicationId
\* AND status = 'pending' of rejectCreatorApplication
rejectCreatorApplication_update(r) ==
  /\ appReq[r].pc = "updateApp"
  /\ appReq[r].op = "reject"
  /\ \E dbError \in BOOLEAN :
       LET q == appReq[r] IN
       IF dbError
       THEN /\ UNCHANGED <<applications, outbox>>
            /\ appReq' = [appReq EXCEPT ![r] = AppDone(q.op, q.app, "updateError")]
       ELSE IF applications[q.app].status = "pending"
       THEN \E emailKnown, sendFails \in BOOLEAN :
            /\ applications' = [applications EXCEPT ![q.app].status = "rejected"]
            /\ outbox' = Notify("creator_rejection", applications[q.app].user_id,
                                emailKnown, sendFails)
            /\ appReq' = [appReq EXCEPT ![r] =
                  AppDone(q.op, q.app, NotifyOutcome("rejected", sendFails))]
       ELSE /\ UNCHANGED <<applications, outbox>>
            /\ appReq' = [appReq EXCEPT ![r] =
                  AppDone(q.op, q.app, "Application not found or already processed")]
  /\ UNCHANGED <<users, profiles, tracks, reels, likes, storage, clock, likeSeq, appSeq,
                 objSeq, notAppSend>>

review_updateRole_activates(r) ==
  /\ appReq[r].pc = "updateRole"
  /\ \E dbError \in BOOLEAN :
       LET q == appReq[r] IN
       IF dbError
       THEN /\ UNCHANGED <<users, outbox>>
            /\ appReq' = [appReq EXCEPT ![r] =
                  AppDone(q.op, q.app, "Failed to upgrade user role")]
       ELSE /\ users' = [users EXCEPT ![applications[q.app].user_id].role = "creator",
                                       ![applications[q.app].user_id].status = "active"]
            /\ \E emailKnown, sendFails \in BOOLEAN :
                 /\ outbox' = IF q.op = "approve"
                              THEN Notify("creator_approval", applications[q.app].user_id,
                                          emailKnown, sendFails)
                              ELSE outbox
                 /\ appReq' = [appReq EXCEPT ![r] =
                      AppDone(q.op, q.app,
                              IF q.op = "approve" THEN NotifyOutcome("approved", sendFails)
                              ELSE "approved")]
  /\ UNCHANGED <<profiles, applications, tracks, reels, likes, storage, clock, likeSeq,
                 appSeq, objSeq, notAppSend>>

\* UPDATE users SET role = 'creator' WHERE id = application.user_id
review_updateRole(r) ==
  /\ appReq[r].pc = "updateRole"
  /\ \E dbError \in BOOLEAN :
       LET q == appReq[r] IN
       IF dbError
       THEN /\ UNCHANGED <<users, outbox>>
            /\ appReq' = [appReq EXCEPT ![r] =
                  AppDone(q.op, q.app, "Failed to upgrade user role")]
       ELSE /\ users' = [users EXCEPT ![applications[q.app].user_id].role = "creator"]
            /\ \E emailKnown, sendFails \in BOOLEAN :
                 /\ outbox' = IF q.op = "approve"
                              THEN Notify("creator_approval", applications[q.app].user_id,
                                          emailKnown, sendFails)
                              ELSE outbox
                 /\ appReq' = [appReq EXCEPT ![r] =
                      AppDone(q.op, q.app,
                              IF q.op = "approve" THEN NotifyOutcome("approved", sendFails)
                              ELSE "approved")]
  /\ UNCHANGED <<profiles, applications, tracks, reels, likes, storage, clock, likeSeq,
                 appSeq, objSeq, notAppSend>>

ApplicationNext ==
  \/ \E r \in Slots, uid \in Submitters, body \in SubmitBodies :
        submitCreatorApplication_check(r, uid, body)
  \/ \E r \in Slots : submitCreatorApplication_insert(r)
  \/ \E r \in Slots, op \in ReviewOps, admin \in Reviewers,
        app \in ApplicationIdInputs, decision \in {"approved", "rejected"} :
        review_fetch(r, op, admin, app, decision, NoNotes)
  \/ \E r \in Slots : review_updateApp(r)
  \/ \E r \in Slots : rejectCreatorApplication_update(r)
  \/ \E r \in Slots : review_updateRole(r)

\* ------------------------------------------------------- admin moderation
MaxBatch == 100      \* batchApproveUsers refuses a larger count

AdminResp(op, result) == [op |-> op, result |-> result]

Now == clock

\* accounts an admin request may name, and an email or id that names nobody
AdminTargets == UserIds \cup {NoUser}

\* callers of the admin router: the admin and a listener
AdminCallers == {"a1", "u2"}

\* adminService.approveUser: UPDATE users SET status = 'active', approved_at = now
\* WHERE id = userId AND status = 'waitlisted'
approveUser(admin, email) ==
  /\ clock < Cardinality(UserIds) + MaxClock
  /\ IF requireRole(admin, {"admin"}) # "ok"
     THEN /\ adminResp' = AdminResp("approveUser", requireRole(admin, {"admin"}))
          /\ UNCHANGED <<users, clock, outbox>>
     ELSE IF email \notin DOMAIN users
     THEN /\ adminResp' = AdminResp("approveUser", "User not found with this email")
          /\ UNCHANGED <<users, clock, outbox>>
     ELSE IF users[email].status # "waitlisted"
     THEN /\ adminResp' = AdminResp("approveUser", "User not in waitlist or already approved")
          /\ UNCHANGED <<users, clock, outbox>>
     ELSE \E sendFails \in BOOLEAN :
          /\ users' = [users EXCEPT ![email].status = "active", ![email].approved_at = Now]
          /\ clock' = clock + 1
          /\ outbox' = Notify("waitlist_approval", email, TRUE, sendFails)
          /\ adminResp' = AdminResp("approveUser", NotifyOutcome("ok", sendFails))
  /\ UNCHANGED <<profiles, applications, tracks, reels, likes, storage, likeSeq,
                 appSeq, objSeq, toggleReq, appReq, batchReq, profileReq, createResp,
                 contentResp, socialVars, readVars, emailClient, authVars, histVars>>

banUser_no_self_test(admin, id, reason) ==
  /\ clock < Cardinality(UserIds) + MaxClock
  /\ IF requireRole(admin, {"admin"}) # "ok"
     THEN /\ adminResp' = AdminResp("banUser", requireRole(admin, {"admin"}))
          /\ UNCHANGED <<users, clock>>
     ELSE IF id \notin DOMAIN users
     THEN /\ adminResp' = AdminResp("banUser", "error")
          /\ UNCHANGED <<users, clock>>
     ELSE /\ users' = [users EXCEPT ![id].status = "banned", ![id].ban_reason = reason,
                                     ![id].banned_at = Now]
          /\ clock' = clock + 1
          /\ adminResp' = AdminResp("banUser", "ok")
  /\ UNCHANGED <<profiles, applications, tracks, reels, likes, storage, likeSeq,
                 appSeq, objSeq, toggleReq, appReq, batchReq, profileReq, createResp,
                 contentResp, socialVars, readVars, mailVars, authVars, histVars>>

\* adminController.banUser: self-ban test, then UPDATE users SET status = 'banned',
\* ban_reason, banned_at WHERE id = :id
banUser(admin, id, reason) ==
  /\ clock < Cardinality(UserIds) + MaxClock
  /\ IF requireRole(admin, {"admin"}) # "ok"
     THEN /\ adminResp' = AdminResp("banUser", requireRole(admin, {"admin"}))
          /\ UNCHANGED <<users, clock>>
     ELSE IF id = admin
     THEN /\ adminResp' = AdminResp("banUser", "Cannot ban yourself")
          /\ UNCHANGED <<users, clock>>
     ELSE IF id \notin DOMAIN users
     THEN /\ adminResp' = AdminResp("banUser", "error")
          /\ UNCHANGED <<users, clock>>
     ELSE /\ users' = [users EXCEPT ![id].status = "banned", ![id].ban_reason = reason,
                                     ![id].banned_at = Now]
          /\ clock' = clock + 1
          /\ adminResp' = AdminResp("banUser", "ok")
  /\ UNCHANGED <<profiles, applications, tracks, reels, likes, storage, likeSeq,
                 appSeq, objSeq, toggleReq, appReq, batchReq, profileReq, createResp,
                 contentResp, socialVars, readVars, mailVars, authVars, histVars>>

unbanUser_keeps_ban_fields(admin, id) ==
  /\ IF requireRole(admin, {"admin"}) # "ok"
     THEN /\ adminResp' = AdminResp("unbanUser", requireRole(admin, {"admin"}))
          /\ UNCHANGED users
     ELSE IF id \notin DOMAIN users \/ users[id].status # "banned"
     THEN /\ adminResp' = AdminResp("unbanUser", "User not found or not banned")
          /\ UNCHANGED users
     ELSE /\ users' = [users EXCEPT ![id].status = "active"]
          /\ adminResp' = AdminResp("unbanUser", "ok")
  /\ UNCHANGED <<profiles, applications, tracks, reels, likes, storage, clock, likeSeq,
                 appSeq, objSeq, toggleReq, appReq, batchReq, profileReq, createResp,
                 contentResp, socialVars, readVars, mailVars, authVars, histVars>>

unbanUser_to_waitlisted(admin, id) ==
  /\ IF requireRole(admin, {"admin"}) # "ok"
     THEN /\ adminResp' = AdminResp("unbanUser", requireRole(admin, {"admin"}))
          /\ UNCHANGED users
     ELSE IF id \notin DOMAIN users \/ users[id].status # "banned"
     THEN /\ adminResp' = AdminResp("unbanUser", "User not found or not banned")
          /\ UNCHANGED users
     ELSE /\ users' = [users EXCEPT ![id].status = "waitlisted", ![id].ban_reason = NULL,
                                     ![id].banned_at = NULL]
          /\ adminResp' = AdminResp("unbanUser", "ok")
  /\ UNCHANGED <<profiles, applications, tracks, reels, likes, storage, clock, likeSeq,
                 appSeq, objSeq, toggleReq, appReq, batchReq, profileReq, createResp,
                 contentResp, socialVars, readVars, mailVars, authVars, histVars>>

\* adminController.unbanUser: UPDATE users SET status = 'active', ban_reason = null,
\* banned_at = null WHERE id = :id AND status = 'banned'
unbanUser(admin, id) ==
  /\ IF requireRole(admin, {"admin"}) # "ok"
     THEN /\ adminResp' = AdminResp("unbanUser", requireRole(admin, {"admin"}))
          /\ UNCHANGED users
     ELSE IF id \notin DOMAIN users \/ users[id].status # "banned"
     THEN /\ adminResp' = AdminResp("unbanUser", "User not found or not banned")
          /\ UNCHANGED users
     ELSE /\ users' = [users EXCEPT ![id].status = "active", ![id].ban_reason = NULL,
                                     ![id].banned_at = NULL]
          /\ adminResp' = AdminResp("unbanUser", "ok")
  /\ UNCHANGED <<profiles, applications, tracks, reels, likes, storage, clock, likeSeq,
                 appSeq, objSeq, toggleReq, appReq, batchReq, profileReq, createResp,
                 contentResp, socialVars, readVars, mailVars, authVars, histVars>>

\* rows of users with status waitlisted
Waitlisted == {u \in DOMAIN users : users[u].status = "waitlisted"}

RECURSIVE FirstByCreatedAt_descending(_, _)
FirstByCreatedAt_descending(S, n) ==
  IF n = 0 \/ S = {} THEN {}
  ELSE LET first == CHOOSE u \in S : \A v \in S : users[u].created_at >= users[v].created_at
       IN {first} \cup FirstByCreatedAt_descending(S \ {first}, n - 1)

\* ORDER BY created_at ASC LIMIT n over the rows S
RECURSIVE FirstByCreatedAt(_, _)
FirstByCreatedAt(S, n) ==
  IF n = 0 \/ S = {} THEN {}
  ELSE LET first == CHOOSE u \in S : \A v \in S : users[u].created_at <= users[v].created_at
       IN {first} \cup FirstByCreatedAt(S \ {first}, n - 1)

IdleBatch == [pc |-> "idle", count |-> 0, userIds |-> {}, result |-> "none", approved |-> 0]

BatchDone(result, n) == [IdleBatch EXCEPT !.pc = "done", !.result = result, !.approved = n]

\* counts tried: missing, in range, above the limit
BatchCounts == (0..MaxCount) \cup {MaxBatch + 1}

\* the selection without its ORDER BY: any count of the waitlisted rows
batchApproveUsers_select_unordered(r, admin, count) ==
  /\ batchReq[r].pc \in {"idle", "done"}
  /\ \E picked \in SUBSET Waitlisted :
       /\ Cardinality(picked) = Cardinality(FirstByCreatedAt(Waitlisted, count))
       /\ batchReq' = [batchReq EXCEPT ![r] =
            IF requireRole(admin, {"admin"}) # "ok" THEN BatchDone(requireRole(admin, {"admin"}), 0)
            ELSE IF count = 0 \/ count < 1
              THEN BatchDone("Count is required and must be at least 1", 0)
            ELSE IF count > MaxBatch
              THEN BatchDone("Cannot approve more than 100 users at once", 0)
            ELSE IF picked = {}
              THEN BatchDone("No users in waitlist", 0)
            ELSE [IdleBatch EXCEPT !.pc = "update", !.count = count, !.userIds = picked]]
  /\ UNCHANGED <<dbVars, notBatch>>

\* the count checks of the controller and the service, then
\* SELECT id FROM users WHERE status = 'waitlisted' ORDER BY created_at LIMIT count
batchApproveUsers_select(r, admin, count) ==
  /\ batchReq[r].pc \in {"idle", "done"}
  /\ batchReq' = [batchReq EXCEPT ![r] =
       IF requireRole(admin, {"admin"}) # "ok" THEN BatchDone(requireRole(admin, {"admin"}), 0)
       ELSE IF count = 0 \/ count < 1
         THEN BatchDone("Count is required and must be at least 1", 0)
       ELSE IF count > MaxBatch
         THEN BatchDone("Cannot approve more than 100 users at once", 0)
       ELSE IF FirstByCreatedAt(Waitlisted, count) = {}
         THEN BatchDone("No users in waitlist", 0)
       ELSE [IdleBatch EXCEPT !.pc = "update", !.count = count,
                              !.userIds = FirstByCreatedAt(Waitlisted, count)]]
  /\ UNCHANGED <<dbVars, notBatch>>

\* UPDATE users SET status = 'active', approved_at = now WHERE id IN (userIds)
batchApproveUsers_update(r) ==
  /\ batchReq[r].pc = "update"
  /\ clock < Cardinality(UserIds) + MaxClock
  /\ \E dbError \in BOOLEAN :
       LET ids == batchReq[r].userIds \cap DOMAIN users IN
       IF dbError
       THEN /\ UNCHANGED <<users, clock>>
            /\ batchReq' = [batchReq EXCEPT ![r] = BatchDone("error", 0)]
       ELSE /\ users' = [u \in DOMAIN users |->
                  IF u \in ids THEN [users[u] EXCEPT !.status = "active", !.approved_at = Now]
                  ELSE users[u]]
            /\ clock' = clock + 1
            /\ batchReq' = [batchReq EXCEPT ![r] = BatchDone("ok", Cardinality(ids))]
  /\ UNCHANGED <<profiles, applications, tracks, reels, likes, storage, likeSeq, appSeq,
                 objSeq, notBatch>>

BanReasons == {1}   \* body.reason: some text

AdminNext ==
  \/ \E admin \in AdminCallers, email \in AdminTargets : approveUser(admin, email)
  \/ \E admin \in AdminCallers, id \in AdminTargets, reason \in BanReasons :
        banUser(admin, id, reason)
  \/ \E admin \in AdminCallers, id \in AdminTargets : unbanUser(admin, id)
  \/ \E r \in Slots, admin \in AdminCallers, count \in BatchCounts :
        batchApproveUsers_select(r, admin, count)
  \/ \E r \in Slots : batchApproveUsers_update(r)

\* ------------------------------------------------------------------ profiles
Undefined == ""      \* a field absent from profileData

IdleProfile == [pc |-> "idle", caller |-> NoUser, username |-> Undefined,
                display_name |-> NULL, result |-> "none"]

ProfileDone(result) == [IdleProfile EXCEPT !.pc = "done", !.result = result]

ProfilesUniqueOk_no_constraint(uid, username) == TRUE

\* UNIQUE on profiles.username, as seen by an UPDATE of row uid
ProfilesUniqueOk(uid, username) ==
  \A v \in DOMAIN profiles : v # uid => profiles[v].username # username

\* PUT /api/users/me/profile up to the availability pre-check:
\* SELECT id FROM profiles WHERE username = :username AND id <> :userId
updateUserProfile_precheck(r, uid, username, display_name) ==
  /\ profileReq[r].pc \in {"idle", "done"}
  /\ profileReq' = [profileReq EXCEPT ![r] =
       IF requireActive(uid) # "ok" THEN ProfileDone(requireActive(uid))
       ELSE IF username # Undefined
               /\ \E v \in DOMAIN profiles : v # uid /\ profiles[v].username = username
         THEN ProfileDone("Username already taken")
       ELSE [IdleProfile EXCEPT !.pc = "update", !.caller = uid, !.username = username,
                                !.display_name = display_name]]

\* the same request on its own, as the other request families see it
updateUserProfile_check(r, uid, username, display_name) ==
  /\ updateUserProfile_precheck(r, uid, username, display_name)
  /\ UNCHANGED <<dbVars, notProfile>>

\* UPDATE profiles SET ...profileData WHERE id = userId; error 23505 becomes
\* ConflictError('Username already taken')
updateUserProfile_update(r) ==
  /\ profileReq[r].pc = "update"
  /\ \E dbError \in BOOLEAN :
       LET q == profileReq[r] IN
       IF q.username # Undefined /\ ~ProfilesUniqueOk(q.caller, q.username)
       THEN /\ UNCHANGED profiles
            /\ profileReq' = [profileReq EXCEPT ![r] = ProfileDone("Username already taken")]
       ELSE IF dbError
       THEN /\ UNCHANGED profiles
            /\ profileReq' = [profileReq EXCEPT ![r] = ProfileDone("error")]
       ELSE /\ profiles' = [profiles EXCEPT
                  ![q.caller].username = IF q.username # Undefined THEN q.username ELSE @,
                  ![q.caller].display_name = IF q.display_name # NULL THEN q.display_name ELSE @]
            /\ profileReq' = [profileReq EXCEPT ![r] = ProfileDone("ok")]
  /\ UNCHANGED <<users, applications, tracks, reels, likes, storage, clock, likeSeq, appSeq,
                 objSeq, notProfile>>

\* ------------------------------------------------------- storage and content
\* a multipart file: its declared MIME type and its size in megabytes
NoFile == [present |-> FALSE, mimetype |-> "", size |-> 0]
File(mimetype, size) == [present |-> TRUE, mimetype |-> mimetype, size |-> size]

\* storageService.ALLOWED_TYPES
ALLOWED_TYPES ==
  [audio |-> {"audio/mpeg", "audio/mp3", "audio/wav", "audio/ogg"},
   video |-> {"video/mp4", "video/webm", "video/ogg"},
   image |-> {"image/jpeg", "image/jpg", "image/png", "image/webp"}]

\* storageService.MAX_SIZES, in megabytes
MAX_SIZES == [audio |-> 50, video |-> 100, image |-> 5]

\* fileUpload.FILE_SIZE_LIMITS, in megabytes
FILE_SIZE_LIMITS == [audio |-> 50, video |-> 100, image |-> 5]

\* storageService.validateFile
validateFile(file, category) ==
  IF ~file.present THEN "No file provided"
  ELSE IF file.mimetype \notin ALLOWED_TYPES[category] THEN "Invalid file type"
  ELSE IF file.size > MAX_SIZES[category] THEN "File size exceeds limit"
  ELSE "ok"

CreateResp(op, result, puts, removes, failedRemoves, row) ==
  [op |-> op, result |-> result, puts |-> puts, removes |-> removes,
   failedRemoves |-> failedRemoves, row |-> row]

createTrack_cleanup_audio_only(audioUrl, coverUrl) == {audioUrl}

\* createTrack's clean-up after a failed insert: deleteFile(audioUrl), then
\* deleteFile(coverUrl) if a cover was uploaded
createTrack_cleanup(audioUrl, coverUrl) ==
  {audioUrl} \cup (IF coverUrl # NULL THEN {coverUrl} ELSE {})

\* POST /api/tracks: route guards, multer, controller and trackService.createTrack.
\* audioUp, coverUp, insertOk and removed are the outcomes of the bucket uploads,
\* of the INSERT and of the bucket removes.
createTrack(uid, title, audioFile, coverFile) ==
  /\ objSeq <= MaxObjects
  /\ \E audioUp, coverUp, insertOk \in BOOLEAN, removed \in SUBSET {objSeq, objSeq + 1} :
       LET guard == IF requireActive(uid) # "ok" THEN requireActive(uid)
                    ELSE requireRole(uid, {"creator", "admin"})
           audioUrl == objSeq
           coverUrl == IF coverFile.present THEN objSeq + 1 ELSE NULL
           rowId == objSeq + 2
           cleanup == createTrack_cleanup(audioUrl, coverUrl)
           resp ==
             IF guard # "ok" THEN CreateResp("createTrack", guard, {}, {}, {}, NULL)
             ELSE IF audioFile.size > FILE_SIZE_LIMITS.audio \/ coverFile.size > FILE_SIZE_LIMITS.audio
               THEN CreateResp("createTrack", "File size exceeds maximum limit", {}, {}, {}, NULL)
             ELSE IF ~audioFile.present
               THEN CreateResp("createTrack", "Audio file is required", {}, {}, {}, NULL)
             ELSE IF title = ""
               THEN CreateResp("createTrack", "Track title is required", {}, {}, {}, NULL)
             ELSE IF validateFile(audioFile, "audio") # "ok"
               THEN CreateResp("createTrack", validateFile(audioFile, "audio"), {}, {}, {}, NULL)
             ELSE IF ~audioUp
               THEN CreateResp("createTrack", "Failed to upload file", {}, {}, {}, NULL)
             ELSE IF coverFile.present /\ validateFile(coverFile, "image") # "ok"
               THEN CreateResp("createTrack", validateFile(coverFile, "image"), {audioUrl}, {}, {}, NULL)
             ELSE IF coverFile.present /\ ~coverUp
               THEN CreateResp("createTrack", "Failed to upload file", {audioUrl}, {}, {}, NULL)
             ELSE IF ~insertOk
               THEN CreateResp("createTrack", "Failed to create track",
                               {audioUrl, coverUrl} \ {NULL}, cleanup, cleanup \ removed, NULL)
             ELSE CreateResp("createTrack", "created", {audioUrl, coverUrl} \ {NULL}, {}, {}, rowId)
       IN /\ createResp' = resp
          /\ storage' = (storage \cup resp.puts) \ (resp.removes \ resp.failedRemoves)
          /\ tracks' = IF resp.row # NULL
                        THEN tracks @@ (rowId :> TrackRow(uid, title, audioUrl, coverUrl, clock))
                        ELSE tracks
          /\ objSeq' = IF resp.puts # {} THEN objSeq + 3 ELSE objSeq
  /\ UNCHANGED <<users, profiles, applications, reels, likes, clock, likeSeq, appSeq, notCreate>>

\* POST /api/reels: route guards, multer (video filter and limit), controller and
\* reelService.createReel
createReel(uid, videoFile) ==
  /\ objSeq <= MaxObjects
  /\ \E videoUp, insertOk, removeOk \in BOOLEAN :
       LET guard == IF requireActive(uid) # "ok" THEN requireActive(uid)
                    ELSE requireRole(uid, {"creator", "admin"})
           videoUrl == objSeq
           rowId == objSeq + 2
           resp ==
             IF guard # "ok" THEN CreateResp("createReel", guard, {}, {}, {}, NULL)
             ELSE IF videoFile.present /\ videoFile.mimetype \notin ALLOWED_TYPES.video
               THEN CreateResp("createReel", "Invalid file type", {}, {}, {}, NULL)
             ELSE IF videoFile.size > FILE_SIZE_LIMITS.video
               THEN CreateResp("createReel", "File size exceeds maximum limit", {}, {}, {}, NULL)
             ELSE IF ~videoFile.present
               THEN CreateResp("createReel", "Video file is required", {}, {}, {}, NULL)
             ELSE IF validateFile(videoFile, "video") # "ok"
               THEN CreateResp("createReel", validateFile(videoFile, "video"), {}, {}, {}, NULL)
             ELSE IF ~videoUp
               THEN CreateResp("createReel", "Failed to upload file", {}, {}, {}, NULL)
             ELSE IF ~insertOk
               THEN CreateResp("createReel", "Failed to create reel", {videoUrl}, {videoUrl},
                               IF removeOk THEN {} ELSE {videoUrl}, NULL)
             ELSE CreateResp("createReel", "created", {videoUrl}, {}, {}, rowId)
       IN /\ createResp' = resp
          /\ storage' = (storage \cup resp.puts) \ (resp.removes \ resp.failedRemoves)
          /\ reels' = IF resp.row # NULL THEN reels @@ (rowId :> ReelRow(uid, videoUrl, clock))
                       ELSE reels
          /\ objSeq' = IF resp.puts # {} THEN objSeq + 3 ELSE objSeq
  /\ UNCHANGED <<users, profiles, applications, tracks, likes, clock, likeSeq, appSeq, notCreate>>

\* files and titles tried
AudioFiles == {NoFile, File("audio/mpeg", 10), File("audio/mpeg", 51), File("text/plain", 1)}
CoverFiles == {NoFile, File("image/png", 1), File("image/png", 6)}
VideoFiles == {NoFile, File("video/mp4", 40), File("video/avi", 40), File("video/mp4", 101)}
Titles == {"", "song"}

CreateNext ==
  \/ \E uid \in {"a1", "u1", "u2", "u3"}, title \in Titles, audioFile \in AudioFiles,
        coverFile \in CoverFiles : createTrack(uid, title, audioFile, coverFile)
  \/ \E uid \in {"a1", "u1", "u2", "u3"}, videoFile \in VideoFiles : createReel(uid, videoFile)

\* --------------------------------------------- update and delete of content
notContent == <<toggleReq, appReq, batchReq, profileReq, adminResp, createResp, socialVars, readVars, mailVars, authVars, histVars>>

ContentResp(op, caller, id, result, removes, failedRemoves) ==
  [op |-> op, caller |-> caller, id |-> id, result |-> result, removes |-> removes,
   failedRemoves |-> failedRemoves]

NoContent == ContentResp("none", NoUser, NULL, "none", {}, {})

OwnedRow_id_only(tbl, id, userId) == id \in DOMAIN tbl

\* the filter .eq('id', id).eq('user_id', userId) matches a row
OwnedRow(tbl, id, userId) == id \in DOMAIN tbl /\ tbl[id].user_id = userId

\* guards of PUT and DELETE /api/tracks/:id and /api/reels/:id
ContentGuard(uid) ==
  IF requireActive(uid) # "ok" THEN requireActive(uid)
  ELSE requireRole(uid, {"creator", "admin"})

\* trackService.updateTrack: UPDATE tracks SET ... WHERE id AND user_id
trackService_updateTrack(op, trackId, userId, updates) ==
  \E dbError \in BOOLEAN :
    IF dbError \/ ~OwnedRow(tracks, trackId, userId)
    THEN /\ contentResp' = ContentResp(op, userId, trackId, "Track not found or unauthorized", {}, {})
         /\ UNCHANGED tracks
    ELSE /\ tracks' = [tracks EXCEPT ![trackId].is_active = updates.is_active]
         /\ contentResp' = ContentResp(op, userId, trackId, "ok", {}, {})

\* reelService.updateReel: UPDATE reels SET ... WHERE id AND user_id
reelService_updateReel(op, reelId, userId, updates) ==
  \E dbError \in BOOLEAN :
    IF dbError \/ ~OwnedRow(reels, reelId, userId)
    THEN /\ contentResp' = ContentResp(op, userId, reelId, "Reel not found or unauthorized", {}, {})
         /\ UNCHANGED reels
    ELSE /\ reels' = [reels EXCEPT ![reelId].is_active = updates.is_active]
         /\ contentResp' = ContentResp(op, userId, reelId, "ok", {}, {})

trackService_deleteTrack_media_first(op, trackId, userId) ==
  \E dbError \in BOOLEAN :
    IF ~OwnedRow(tracks, trackId, userId)
    THEN /\ contentResp' = ContentResp(op, userId, trackId, "Track not found or unauthorized", {}, {})
         /\ UNCHANGED <<tracks, storage>>
    ELSE LET files == {tracks[trackId].audio_url, tracks[trackId].cover_url} \ {NULL} IN
         /\ storage' = storage \ files
         /\ IF dbError
            THEN /\ contentResp' = ContentResp(op, userId, trackId, "Failed to delete track", files, {})
                 /\ UNCHANGED tracks
            ELSE /\ contentResp' = ContentResp(op, userId, trackId, "ok", files, {})
                 /\ tracks' = [id \in DOMAIN tracks \ {trackId} |-> tracks[id]]

\* trackService.deleteTrack: SELECT the urls WHERE id AND user_id, DELETE the row,
\* then deleteFile(audio_url) and deleteFile(cover_url); removed are the bucket
\* removes that succeed
trackService_deleteTrack(op, trackId, userId) ==
  \E dbError \in BOOLEAN :
    IF ~OwnedRow(tracks, trackId, userId)
    THEN /\ contentResp' = ContentResp(op, userId, trackId, "Track not found or unauthorized", {}, {})
         /\ UNCHANGED <<tracks, storage>>
    ELSE IF dbError
    THEN /\ contentResp' = ContentResp(op, userId, trackId, "Failed to delete track", {}, {})
         /\ UNCHANGED <<tracks, storage>>
    ELSE LET files == {tracks[trackId].audio_url, tracks[trackId].cover_url} \ {NULL} IN
         \E removed \in SUBSET files :
           /\ tracks' = [id \in DOMAIN tracks \ {trackId} |-> tracks[id]]
           /\ storage' = storage \ removed
           /\ contentResp' = ContentResp(op, userId, trackId, "ok", files, files \ removed)

\* reelService.deleteReel: SELECT video_url WHERE id AND user_id, DELETE the row,
\* then deleteFile(video_url)
reelService_deleteReel(op, reelId, userId) ==
  \E dbError \in BOOLEAN :
    IF ~OwnedRow(reels, reelId, userId)
    THEN /\ contentResp' = ContentResp(op, userId, reelId, "Reel not found or unauthorized", {}, {})
         /\ UNCHANGED <<reels, storage>>
    ELSE IF dbError
    THEN /\ contentResp' = ContentResp(op, userId, reelId, "Failed to delete reel", {}, {})
         /\ UNCHANGED <<reels, storage>>
    ELSE LET files == {reels[reelId].video_url} IN
         \E removed \in SUBSET files :
           /\ reels' = [id \in DOMAIN reels \ {reelId} |-> reels[id]]
           /\ storage' = storage \ removed
           /\ contentResp' = ContentResp(op, userId, reelId, "ok", files, files \ removed)

\* PUT /api/tracks/:id
updateTrack(trackId, userId, updates) ==
  /\ IF ContentGuard(userId) # "ok"
     THEN /\ contentResp' = ContentResp("updateTrack", userId, trackId, ContentGuard(userId), {}, {})
          /\ UNCHANGED tracks
     ELSE trackService_updateTrack("updateTrack", trackId, userId, updates)
  /\ UNCHANGED <<users, profiles, applications, reels, likes, storage, clock, likeSeq, appSeq,
                 objSeq, notContent>>

\* DELETE /api/tracks/:id
deleteTrack(trackId, userId) ==
  /\ IF ContentGuard(userId) # "ok"
     THEN /\ contentResp' = ContentResp("deleteTrack", userId, trackId, ContentGuard(userId), {}, {})
          /\ UNCHANGED <<tracks, storage>>
     ELSE trackService_deleteTrack("deleteTrack", trackId, userId)
  /\ UNCHANGED <<users, profiles, applications, reels, likes, clock, likeSeq, appSeq,
                 objSeq, notContent>>

\* PUT /api/reels/:id
updateReel(reelId, userId, updates) ==
  /\ IF ContentGuard(userId) # "ok"
     THEN /\ contentResp' = ContentResp("updateReel", userId, reelId, ContentGuard(userId), {}, {})
          /\ UNCHANGED reels
     ELSE reelService_updateReel("updateReel", reelId, userId, updates)
  /\ UNCHANGED <<users, profiles, applications, tracks, likes, storage, clock, likeSeq, appSeq,
                 objSeq, notContent>>

\* DELETE /api/reels/:id
deleteReel(reelId, userId) ==
  /\ IF ContentGuard(userId) # "ok"
     THEN /\ contentResp' = ContentResp("deleteReel", userId, reelId, ContentGuard(userId), {}, {})
          /\ UNCHANGED <<reels, storage>>
     ELSE reelService_deleteReel("deleteReel", reelId, userId)
  /\ UNCHANGED <<users, profiles, applications, tracks, likes, clock, likeSeq, appSeq,
                 objSeq, notContent>>

\* DELETE /api/admin/tracks/:id: adminController.deleteTrack hands the admin's own
\* id to trackService.deleteTrack as the owner
adminController_deleteTrack(admin, id) ==
  /\ IF requireRole(admin, {"admin"}) # "ok"
     THEN /\ contentResp' = ContentResp("admin.deleteTrack", admin, id,
                                        requireRole(admin, {"admin"}), {}, {})
          /\ UNCHANGED <<tracks, storage>>
     ELSE trackService_deleteTrack("admin.deleteTrack", id, admin)
  /\ UNCHANGED <<users, profiles, applications, reels, likes, clock, likeSeq, appSeq,
                 objSeq, notContent>>

\* DELETE /api/admin/reels/:id: adminController.deleteReel hands the admin's own
\* id to reelService.deleteReel as the owner
adminController_deleteReel(admin, id) ==
  /\ IF requireRole(admin, {"admin"}) # "ok"
     THEN /\ contentResp' = ContentResp("admin.deleteReel", admin, id,
                                        requireRole(admin, {"admin"}), {}, {})
          /\ UNCHANGED <<reels, storage>>
     ELSE reelService_deleteReel("admin.deleteReel", id, admin)
  /\ UNCHANGED <<users, profiles, applications, tracks, likes, clock, likeSeq, appSeq,
                 objSeq, notContent>>

\* ids and patches tried
TrackIdInputs == {1, 3}
ReelIdInputs == {2, 4}
ContentUpdates == {[is_active |-> TRUE], [is_active |-> FALSE]}

ContentNext ==
  \/ \E id \in TrackIdInputs, uid \in UserIds, updates \in ContentUpdates :
        updateTrack(id, uid, updates)
  \/ \E id \in TrackIdInputs, uid \in UserIds : deleteTrack(id, uid)
  \/ \E id \in ReelIdInputs, uid \in UserIds, updates \in ContentUpdates :
        updateReel(id, uid, updates)
  \/ \E id \in ReelIdInputs, uid \in UserIds : deleteReel(id, uid)
  \/ \E id \in TrackIdInputs, admin \in UserIds : adminController_deleteTrack(admin, id)
  \/ \E id \in ReelIdInputs, admin \in UserIds : adminController_deleteReel(admin, id)

\* ----------------------------------------------------------- error responses
\* the error classes of utils/errors: a name and an HTTP status; a plain Error
\* carries no status, a PostgREST error object carries a code
ErrorObject(name, statusCode, code) == [name |-> name, statusCode |-> statusCode, code |-> code]
AppError(statusCode) == ErrorObject("AppError", statusCode, "")
ValidationError == ErrorObject("ValidationError", 400, "")
AuthorizationError == ErrorObject("AuthorizationError", 403, "")
NotFoundError == ErrorObject("NotFoundError", 404, "")
ConflictError == ErrorObject("ConflictError", 409, "")
PlainError == ErrorObject("Error", NULL, "")
AuthenticationError == ErrorObject("AuthenticationError", 401, "")
TypeError == ErrorObject("TypeError", NULL, "")
PostgrestError == ErrorObject("", NULL, "PGRST116")

\* the error each failure of the handlers throws to next(error)
ThrownError(result) ==
  CASE result \in {"Account pending approval", "Account has been banned", "Account not active",
                    "Insufficient permissions", "User not found",
                    "Authentication required"} -> AuthorizationError
    [] result \in {"No token provided", "Token verification failed"} -> AuthenticationError
    [] result = "TypeError" -> TypeError
    [] result = "NotFoundError" -> NotFoundError
    [] result \in {"ValidationError", "You already have a pending application",
                    "You are already a creator", "Application has already been reviewed",
                    "Track title is required", "Audio file is required", "Video file is required",
                    "No file provided", "Invalid file type", "File size exceeds limit",
                    "File size exceeds maximum limit", "You cannot follow yourself",
                    "Already following this user"} -> ValidationError
    [] result \in {"Track not found or unauthorized", "Reel not found or unauthorized",
                    "Target user not found"} -> NotFoundError
    [] result = "Username already taken" -> ConflictError
    [] result = "Application not found" -> AppError(404)
    [] result \in {"Application already processed", "Application not found or already processed",
                    "User not in waitlist or already approved", "User not found with this email",
                    "Cannot approve more than 100 users at once"} -> PlainError
    [] result \in {"error", "fetchError", "updateError"} -> PostgrestError
    [] OTHER -> AppError(500)

\* errorHandler: the statuses it can answer for an error. For a ValidationError it
\* evaluates Object.values(err.errors): with err.errors undefined that throws and
\* Express answers 500, with err.errors an object the rebuilt AppError answers 400.
\* A code starting with PGRST is answered 500; otherwise error.statusCode || 500.
errorHandler(err) ==
  IF err.name = "ValidationError" THEN {400, 500}
  ELSE IF err.code = "PGRST116" THEN {500}
  ELSE IF err.statusCode # NULL THEN {err.statusCode}
  ELSE {500}

\* failures a controller answers itself with res.status(...)
DirectStatus ==
  [r \in {"Cannot ban yourself", "Count is required and must be at least 1",
           "User not found or not banned"} |->
     IF r = "User not found or not banned" THEN 404 ELSE 400]

\* the HTTP statuses a failed request can be answered with
HttpStatuses(result) ==
  IF result \in DOMAIN DirectStatus THEN {DirectStatus[result]}
  ELSE errorHandler(ThrownError(result))

\* POST /api/admin/users/approve: adminController.approveUser hands req.params.id
\* to adminService.approveUser; the route has no :id, so the service always gets
\* undefined whatever email the body carries
adminController_approveUser(admin, email) == approveUser(admin, NoUser)

ApproveNext ==
  \/ \E admin \in AdminCallers, email \in AdminTargets : adminController_approveUser(admin, email)
  \/ \E admin \in AdminCallers, id \in AdminTargets, reason \in BanReasons :
        banUser(admin, id, reason)
  \/ \E admin \in AdminCallers, id \in AdminTargets : unbanUser(admin, id)
  \/ \E r \in Slots, admin \in AdminCallers, count \in BatchCounts :
        batchApproveUsers_select(r, admin, count)
  \/ \E r \in Slots : batchApproveUsers_update(r)

\* -------------------------------------------------------------------- follows
notFollow == <<toggleReq, appReq, batchReq, profileReq, adminResp, createResp, contentResp,
              readVars, mailVars, authVars, histVars>>

IdleFollow == [pc |-> "idle", op |-> "none", follower |-> NoUser, following |-> NoUser,
               result |-> "none"]

FollowDone(op, result) == [IdleFollow EXCEPT !.pc = "done", !.op = op, !.result = result]

\* rows of follows matching (follower_id, following_id)
FollowRows(followerId, followingId) ==
  {f \in follows : f.follower_id = followerId /\ f.following_id = followingId}

FollowsUniqueOk_no_constraint(followerId, followingId) == TRUE

\* UNIQUE(follower_id, following_id)
FollowsUniqueOk(followerId, followingId) == FollowRows(followerId, followingId) = {}

\* CHECK (follower_id != following_id)
FollowsCheckOk(followerId, followingId) == followerId # followingId

\* POST /api/users/:id/follow up to the SELECT of the target user
followUser_target(r, followerId, followingId) ==
  /\ followReq[r].pc \in {"idle", "done"}
  /\ followReq' = [followReq EXCEPT ![r] =
       IF requireActive(followerId) # "ok" THEN FollowDone("follow", requireActive(followerId))
       ELSE IF followerId = followingId THEN FollowDone("follow", "You cannot follow yourself")
       ELSE IF followingId \notin DOMAIN users THEN FollowDone("follow", "Target user not found")
       ELSE [IdleFollow EXCEPT !.pc = "existing", !.op = "follow", !.follower = followerId,
                               !.following = followingId]]
  /\ UNCHANGED <<dbVars, follows, followSeq, notFollow>>

\* SELECT id FROM follows WHERE follower_id AND following_id (maybeSingle)
followUser_existing(r) ==
  /\ followReq[r].pc = "existing"
  /\ followReq' = [followReq EXCEPT ![r] =
       IF FollowRows(followReq[r].follower, followReq[r].following) # {}
       THEN FollowDone("follow", "Already following this user")
       ELSE [followReq[r] EXCEPT !.pc = "insert"]]
  /\ UNCHANGED <<dbVars, follows, followSeq, notFollow>>

\* INSERT INTO follows (follower_id, following_id)
followUser_insert(r) ==
  /\ followReq[r].pc = "insert"
  /\ \E dbError \in BOOLEAN :
       LET q == followReq[r] IN
       IF \/ dbError
          \/ followSeq > MaxFollowId
          \/ ~FollowsUniqueOk(q.follower, q.following)
          \/ ~FollowsCheckOk(q.follower, q.following)
       THEN /\ UNCHANGED <<follows, followSeq>>
            /\ followReq' = [followReq EXCEPT ![r] = FollowDone("follow", "Failed to follow user")]
       ELSE /\ follows' = follows \cup {[id |-> followSeq, follower_id |-> q.follower,
                                          following_id |-> q.following]}
            /\ followSeq' = followSeq + 1
            /\ followReq' = [followReq EXCEPT ![r] = FollowDone("follow", "followed")]
  /\ UNCHANGED <<dbVars, notFollow>>

\* DELETE /api/users/:id/follow: DELETE FROM follows WHERE follower_id AND following_id
unfollowUser(r, followerId, followingId) ==
  /\ followReq[r].pc \in {"idle", "done"}
  /\ \E dbError \in BOOLEAN :
       IF requireActive(followerId) # "ok"
       THEN /\ UNCHANGED follows
            /\ followReq' = [followReq EXCEPT ![r] =
                  FollowDone("unfollow", requireActive(followerId))]
       ELSE IF dbError
       THEN /\ UNCHANGED follows
            /\ followReq' = [followReq EXCEPT ![r] =
                  FollowDone("unfollow", "Failed to unfollow user")]
       ELSE /\ follows' = follows \ FollowRows(followerId, followingId)
            /\ followReq' = [followReq EXCEPT ![r] = FollowDone("unfollow", "unfollowed")]
  /\ UNCHANGED <<dbVars, followSeq, notFollow>>

\* callers and targets tried: an active creator, an active listener, a
\* waitlisted listener, and an id that names nobody
Followers == {"u1", "u2", "u3"}
FollowTargets == {"u1", "u2", NoUser}

FollowNext ==
  \/ \E r \in Slots, followerId \in Followers, followingId \in FollowTargets :
        followUser_target(r, followerId, followingId)
  \/ \E r \in Slots : followUser_existing(r)
  \/ \E r \in Slots : followUser_insert(r)
  \/ \E r \in Slots, followerId \in Followers, followingId \in FollowTargets :
        unfollowUser(r, followerId, followingId)

\* ------------------------------------------------------------------ listings
ListResp(op, result, items, total, includeInactive) ==
  [op |-> op, result |-> result, items |-> items, total |-> total,
   includeInactive |-> includeInactive]

NoList == ListResp("none", "none", <<>>, NULL, FALSE)

notList == <<toggleReq, appReq, batchReq, profileReq, adminResp, createResp, contentResp,
            socialVars, mailVars, authVars, histVars>>

\* the characters of the titles and search strings tried
Text ==
  ("" :> <<>>) @@ (" " :> <<" ">>) @@ ("song" :> <<"s", "o", "n", "g">>)
  @@ ("Tune" :> <<"T", "u", "n", "e">>) @@ (" SO" :> <<" ", "S", "O">>)
  @@ ("_un" :> <<"_", "u", "n">>)

\* String.prototype.trim
RECURSIVE TrimStart(_)
TrimStart(t) == IF t # <<>> /\ Head(t) = " " THEN TrimStart(Tail(t)) ELSE t

RECURSIVE TrimEnd(_)
TrimEnd(t) ==
  IF t # <<>> /\ t[Len(t)] = " " THEN TrimEnd(SubSeq(t, 1, Len(t) - 1)) ELSE t

trim(t) == TrimEnd(TrimStart(t))

\* case folding of ILIKE on the letters in use
Lower(c) ==
  CASE c = "S" -> "s" [] c = "O" -> "o" [] c = "T" -> "t" [] c = "N" -> "n"
    [] c = "G" -> "g" [] c = "U" -> "u" [] c = "E" -> "e" [] OTHER -> c

\* Postgres LIKE on a case-folded text: % is any run of characters, _ any one
RECURSIVE LikeMatch(_, _)
LikeMatch(text, pattern) ==
  IF pattern = <<>> THEN text = <<>>
  ELSE IF Head(pattern) = "%"
    THEN LikeMatch(text, Tail(pattern)) \/ (text # <<>> /\ LikeMatch(Tail(text), pattern))
  ELSE /\ text # <<>>
       /\ (Head(pattern) = "_" \/ Lower(Head(pattern)) = Lower(Head(text)))
       /\ LikeMatch(Tail(text), Tail(pattern))

\* .ilike('title', `%${query.trim()}%`)
ilike(title, query) == LikeMatch(Text[title], <<"%">> \o trim(Text[query]) \o <<"%">>)

eq_is_active_any(row) == TRUE

\* .eq('is_active', true)
eq_is_active(row) == row.is_active = TRUE

\* users!inner ( profiles!inner (...) ): the owner and the owner's profile exist
InnerJoined(row) == row.user_id \in DOMAIN users /\ row.user_id \in DOMAIN profiles

\* .order('created_at', { ascending: false }): the orders the rows ids of table
\* tbl can come back in (rows of equal created_at in either order)
OrderDesc(tbl, ids) ==
  {s \in [1..Cardinality(ids) -> ids] :
     /\ \A i, j \in 1..Cardinality(ids) : i # j => s[i] # s[j]
     /\ \A i, j \in 1..Cardinality(ids) : i < j => tbl[s[i]].created_at >= tbl[s[j]].created_at}

\* .range(offset, offset + limit - 1)
Range(s, offset, limit) ==
  SubSeq(s, offset + 1, IF offset + limit < Len(s) THEN offset + limit ELSE Len(s))

\* total of a search answer: tracks.length, the size of the page returned
PageLength == -1

\* a listing query on table tbl restricted to the row ids matching
ListQuery(op, failure, tbl, matching, total, page, limit, includeInactive) ==
  /\ \E dbError \in BOOLEAN, s \in OrderDesc(tbl, matching) :
       LET items == Range(s, (page - 1) * limit, limit) IN
       listResp' = IF dbError THEN ListResp(op, failure, <<>>, NULL, includeInactive)
                   ELSE ListResp(op, "ok", items,
                                 IF total = PageLength THEN Len(items) ELSE total,
                                 includeInactive)
  /\ UNCHANGED <<dbVars, notList>>

\* the count: 'exact' query on the active rows of tbl
ActiveCount(tbl) == Cardinality({id \in DOMAIN tbl : eq_is_active(tbl[id])})

\* GET /api/tracks
getAllTracks_as(op, page, limit) ==
  ListQuery(op, "Failed to fetch tracks", tracks,
            {id \in DOMAIN tracks : eq_is_active(tracks[id]) /\ InnerJoined(tracks[id])},
            ActiveCount(tracks), page, limit, FALSE)

getAllTracks(page, limit) == getAllTracks_as("getAllTracks", page, limit)

\* GET /api/tracks/search?q=
searchTracks(query, page, limit) ==
  IF Len(trim(Text[query])) = 0 THEN getAllTracks_as("searchTracks", page, limit)
  ELSE ListQuery("searchTracks", "Failed to search tracks", tracks,
                 {id \in DOMAIN tracks : /\ eq_is_active(tracks[id])
                                         /\ InnerJoined(tracks[id])
                                         /\ ilike(tracks[id].title, query)},
                 PageLength, page, limit, FALSE)

\* GET /api/tracks/user/:userId (trackService.getUserTracks; the route passes
\* no includeInactive)
getUserTracks(userId, page, limit, includeInactive) ==
  ListQuery("getUserTracks", "Failed to fetch user tracks", tracks,
            {id \in DOMAIN tracks : /\ tracks[id].user_id = userId
                                    /\ (~includeInactive => eq_is_active(tracks[id]))},
            NULL, page, limit, includeInactive)

\* GET /api/reels/feed
getReelFeed(page, limit) ==
  ListQuery("getReelFeed", "Failed to fetch reel feed", reels,
            {id \in DOMAIN reels : eq_is_active(reels[id]) /\ InnerJoined(reels[id])},
            ActiveCount(reels), page, limit, FALSE)

\* GET /api/reels/user/:userId (reelService.getUserReels)
getUserReels(userId, page, limit, includeInactive) ==
  ListQuery("getUserReels", "Failed to fetch user reels", reels,
            {id \in DOMAIN reels : /\ reels[id].user_id = userId
                                   /\ (~includeInactive => eq_is_active(reels[id]))},
            NULL, page, limit, includeInactive)

\* pages, page sizes and search strings tried
Pages == {1, 2}
Limits == {2}
Queries == {"", " SO", "_un"}
ListOwners == {"u1"}

ListNext ==
  \/ \E page \in Pages, limit \in Limits : getAllTracks(page, limit)
  \/ \E query \in Queries, page \in Pages, limit \in Limits : searchTracks(query, page, limit)
  \/ \E userId \in ListOwners, page \in Pages, limit \in Limits, includeInactive \in BOOLEAN :
        getUserTracks(userId, page, limit, includeInactive)
  \/ \E page \in Pages, limit \in Limits : getReelFeed(page, limit)
  \/ \E userId \in ListOwners, page \in Pages, limit \in Limits, includeInactive \in BOOLEAN :
        getUserReels(userId, page, limit, includeInactive)

\* ---------------------------------------------------------- play and view counts
\* answer of POST /:id/play and POST /:id/view; rpcError is what the service logged
CounterResp(op, id, result, rpcError) ==
  [op |-> op, id |-> id, result |-> result, rpcError |-> rpcError]

increment_track_play_count_by_two(tbl, track_id) ==
  IF track_id \in DOMAIN tbl /\ tbl[track_id].is_active
  THEN [tbl EXCEPT ![track_id].play_count = @ + 2]
  ELSE tbl

\* UPDATE tracks SET play_count = play_count + 1 WHERE id = track_id AND is_active = true
increment_track_play_count(tbl, track_id) ==
  IF track_id \in DOMAIN tbl /\ tbl[track_id].is_active
  THEN [tbl EXCEPT ![track_id].play_count = @ + 1]
  ELSE tbl

\* UPDATE reels SET view_count = view_count + 1 WHERE id = reel_id AND is_active = true
increment_reel_view_count(tbl, reel_id) ==
  IF reel_id \in DOMAIN tbl /\ tbl[reel_id].is_active
  THEN [tbl EXCEPT ![reel_id].view_count = @ + 1]
  ELSE tbl

\* POST /api/tracks/:id/play: trackService.incrementPlayCount logs an rpc error
\* and returns; the controller answers 200
playTrack(id) ==
  /\ id \in DOMAIN tracks => tracks[id].play_count < MaxPlays
  /\ \E rpcError \in BOOLEAN :
       /\ tracks' = IF rpcError THEN tracks ELSE increment_track_play_count(tracks, id)
       /\ listResp' = CounterResp("playTrack", id, "ok", rpcError)
  /\ UNCHANGED <<users, profiles, applications, reels, likes, storage, clock, likeSeq,
                 appSeq, objSeq, notList>>

\* POST /api/reels/:id/view: reelService.incrementViewCount
viewReel(id) ==
  /\ id \in DOMAIN reels => reels[id].view_count < MaxPlays
  /\ \E rpcError \in BOOLEAN :
       /\ reels' = IF rpcError THEN reels ELSE increment_reel_view_count(reels, id)
       /\ listResp' = CounterResp("viewReel", id, "ok", rpcError)
  /\ UNCHANGED <<users, profiles, applications, tracks, likes, storage, clock, likeSeq,
                 appSeq, objSeq, notList>>

ToggleNext ==
  \/ \E r \in Slots, uid \in Listeners, ctype \in ToggleInputTypes, cid \in ContentIdInputs :
        toggleLike_read(r, uid, ctype, cid)
  \/ \E r \in Slots : toggleLike_unlike(r)
  \/ \E r \in Slots : toggleLike_like(r)


NoResp == [op |-> "none", result |-> "none"]
NoCreate == CreateResp("none", "none", {}, {}, {}, NULL)

\* A populated store: an active admin, an active creator with one track and one
\* reel, an active listener and a waitlisted listener; no request in flight.
InitStore ==
  /\ users = [u \in UserIds |->
        IF u = "a1" THEN [UserRow("admin", "active", 1) EXCEPT !.approved_at = 1]
        ELSE IF u = "u1" THEN [UserRow("creator", "active", 2) EXCEPT !.approved_at = 2]
        ELSE IF u = "u2" THEN [UserRow("listener", "active", 3) EXCEPT !.approved_at = 3]
        ELSE UserRow("listener", "waitlisted", 4)]
  /\ profiles = [u \in UserIds |-> [username |-> u, display_name |-> NULL]]
  /\ applications = (1 :> [AppRow("u1", StoredBody) EXCEPT !.status = "approved", !.reviewed_by = "a1"])
  /\ tracks = (1 :> TrackRow("u1", "song", 101, NULL, 1))
  /\ reels = (2 :> ReelRow("u1", 102, 2))
  /\ likes = {}
  /\ storage = {101, 102}
  /\ clock = 5
  /\ likeSeq = 1
  /\ appSeq = 2
  /\ objSeq = 3

\* ------------------------------------------------------------ authentication
\* req.headers.authorization as authHeader.split(' ') sees it; <<>> when absent
NoHeader == <<>>

\* no token: extractToken's null
NoToken == ""

\* config/auth.extractToken
extractToken(authHeader) ==
  IF authHeader = NoHeader THEN NoToken
  ELSE IF Len(authHeader) # 2 \/ authHeader[1] # "Bearer" THEN NoToken
  ELSE authHeader[2]

\* the tokens the identity provider knows and the user each belongs to; t_new is
\* the token of a signed-up user without a users row
Sessions == [t \in {"t_u1", "t_u2", "t_u3", "t_new"} |->
               CASE t = "t_u1" -> "u1" [] t = "t_u2" -> "u2" [] t = "t_u3" -> "u3"
                 [] OTHER -> "u9"]

\* config/auth.verifyToken: the user of the token, or a throw (NoUser) when
\* getUser answers an error or no user
verifyToken(token, getUserError) ==
  IF getUserError \/ token \notin DOMAIN Sessions THEN NoUser ELSE Sessions[token]

\* middleware/auth.authenticate: whether it calls next() without an error, the
\* req.user it leaves (NoUser: undefined) and the message of the error it passes on
authenticate(authHeader, getUserError) ==
  IF NODE_ENV = "test" /\ authHeader = NoHeader
    THEN [next |-> TRUE, user |-> NoUser, error |-> "none"]
  ELSE IF extractToken(authHeader) = NoToken
    THEN [next |-> FALSE, user |-> NoUser, error |-> "No token provided"]
  ELSE IF verifyToken(extractToken(authHeader), getUserError) = NoUser
    THEN [next |-> FALSE, user |-> NoUser, error |-> "Token verification failed"]
  ELSE [next |-> TRUE, user |-> verifyToken(extractToken(authHeader), getUserError),
        error |-> "none"]

AuthResp(route, authHeader, handled, result, user) ==
  [route |-> route, authHeader |-> authHeader, handled |-> handled, result |-> result,
   user |-> user]

NoAuth == AuthResp("none", NoHeader, FALSE, "none", NoUser)

\* GET /api/users/me: authenticate, then userController.getCurrentUser, which
\* reads req.user.id and answers userService.getUserById
getCurrentUser(authHeader) ==
  /\ \E getUserError \in BOOLEAN :
       LET a == authenticate(authHeader, getUserError)
           result == IF ~a.next THEN a.error
                     ELSE IF a.user = NoUser THEN "TypeError"
                     ELSE IF a.user \notin DOMAIN users THEN "NotFoundError"
                     ELSE "ok"
       IN authResp' = AuthResp("GET /api/users/me", authHeader, a.next, result, a.user)
  /\ UNCHANGED <<dbVars, toggleReq, appReq, batchReq, profileReq, adminResp, createResp,
                 contentResp, socialVars, readVars, mailVars, NODE_ENV, histVars>>

\* PUT /api/users/me/profile: authenticate, requireActive(), then
\* userController.updateProfile up to the availability pre-check
updateProfile(r, authHeader, username, display_name) ==
  /\ \E getUserError \in BOOLEAN :
       LET a == authenticate(authHeader, getUserError)
           route == "PUT /api/users/me/profile"
       IN IF ~a.next
          THEN /\ authResp' = AuthResp(route, authHeader, FALSE, a.error, NoUser)
               /\ UNCHANGED profileReq
          ELSE IF a.user = NoUser
          THEN /\ authResp' = AuthResp(route, authHeader, FALSE, "Authentication required", NoUser)
               /\ UNCHANGED profileReq
          ELSE /\ authResp' = AuthResp(route, authHeader, requireActive(a.user) = "ok",
                                       requireActive(a.user), a.user)
               /\ updateUserProfile_precheck(r, a.user, username, display_name)
  /\ UNCHANGED <<dbVars, toggleReq, appReq, batchReq, adminResp, createResp,
                 contentResp, socialVars, readVars, mailVars, NODE_ENV, histVars>>

\* the statuses the request recorded in authResp can be answered with
AuthStatuses ==
  IF authResp.result = "ok" THEN {200} ELSE HttpStatuses(authResp.result)

InitCalls ==
  /\ toggleReq = [r \in Slots |-> IdleToggle]
  /\ appReq = [r \in Slots |-> IdleApp]
  /\ batchReq = [r \in Slots |-> IdleBatch]
  /\ profileReq = [r \in Slots |-> IdleProfile]
  /\ adminResp = NoResp
  /\ createResp = NoCreate
  /\ contentResp = NoContent
  /\ follows = {}
  /\ followSeq = 1
  /\ followReq = [r \in Slots |-> IdleFollow]
  /\ listResp = NoList

\* no request in flight, and a production server started without a mail client
InitReqs ==
  /\ InitCalls
  /\ emailClient = FALSE
  /\ outbox = {}
  /\ NODE_ENV = "production"
  /\ authResp = NoAuth
  /\ pairLog = NoPair

Init == InitStore /\ InitReqs

\* likes: any interleaving of toggleLike calls
SpecLike == Init /\ [][ToggleNext]_vars

\* like rows that designate content item (ctype, cid)
LikesOf(ctype, cid) == {l \in likes : l.content_type = ctype /\ l.content_id = cid}

\* C1: every track's and every reel's like_count equals the number of like
\* rows whose (content_type, content_id) designate it, in every state reached
\* by interleaved toggleLike calls.
C1_LikeCountMatchesRows ==
  /\ \A t \in DOMAIN tracks : tracks[t].like_count = Cardinality(LikesOf("track", t))
  /\ \A x \in DOMAIN reels : reels[x].like_count = Cardinality(LikesOf("reel", x))

\* two users like the same track, the second like just answered
C1_Witness ==
  /\ Cardinality(LikesOf("track", 1)) = 2
  /\ tracks[1].like_count = 2
  /\ \E r \in Slots : toggleReq[r].result = "liked"

\* ------------------------------------------- the same-user toggle race
RaceUser == "u2"
RaceTrack == 1

\* likes that other active accounts may already hold when the race starts
OtherLikeRows ==
  {[id |-> 101, user_id |-> "a1", content_type |-> "track", content_id |-> 1],
   [id |-> 102, user_id |-> "a1", content_type |-> "reel", content_id |-> 2],
   [id |-> 103, user_id |-> "u1", content_type |-> "track", content_id |-> 1],
   [id |-> 104, user_id |-> "u1", content_type |-> "reel", content_id |-> 2]}

InitRace ==
  /\ InitReqs
  /\ \E held \in SUBSET OtherLikeRows :
        /\ likes = held
        /\ tracks = (1 :> [TrackRow("u1", "song", 101, NULL, 1) EXCEPT
                             !.like_count = Cardinality({l \in held : l.content_type = "track"})])
        /\ reels = (2 :> [ReelRow("u1", 102, 2) EXCEPT
                            !.like_count = Cardinality({l \in held : l.content_type = "reel"})])
  /\ users = [u \in UserIds |->
        IF u = "a1" THEN [UserRow("admin", "active", 1) EXCEPT !.approved_at = 1]
        ELSE IF u = "u1" THEN [UserRow("creator", "active", 2) EXCEPT !.approved_at = 2]
        ELSE IF u = "u2" THEN [UserRow("listener", "active", 3) EXCEPT !.approved_at = 3]
        ELSE UserRow("listener", "waitlisted", 4)]
  /\ profiles = [u \in UserIds |-> [username |-> u, display_name |-> NULL]]
  /\ applications = (1 :> [AppRow("u1", StoredBody) EXCEPT !.status = "approved", !.reviewed_by = "a1"])
  /\ storage = {101, 102}
  /\ clock = 5
  /\ likeSeq = 1
  /\ appSeq = 2
  /\ objSeq = 3

\* each slot carries exactly one toggleLike(RaceUser, track, RaceTrack) call
RaceNext ==
  \/ \E r \in Slots : toggleReq[r].pc = "idle" /\ toggleLike_read(r, RaceUser, "track", RaceTrack)
  \/ \E r \in Slots : toggleLike_unlike(r)
  \/ \E r \in Slots : toggleLike_like(r)

SpecRace == InitRace /\ [][RaceNext]_vars

RaceDone == \A r \in Slots : toggleReq[r].pc = "done"
RaceRows == LikeRows(RaceUser, "track", RaceTrack)
RaceOthers == {l \in LikesOf("track", RaceTrack) : l.user_id # RaceUser}
RaceAnswers(res) == Cardinality({r \in Slots : toggleReq[r].result = res})

\* C8 as stated: once both calls have answered and a like was committed, there
\* is exactly one Like row for (U, T) and like_count went up by exactly 1,
\* whatever the interleaving.
C8_AlwaysOneNetLike ==
  (RaceDone /\ RaceAnswers("liked") >= 1) =>
     /\ Cardinality(RaceRows) = 1
     /\ tracks[RaceTrack].like_count = Cardinality(RaceOthers) + 1

\* C8 amended: the two calls never leave two rows nor two counted likes; the
\* rows left are the likes answered minus the unlikes answered (1 when both
\* read before either wrote, the losing insert being rejected; 0 when the
\* second call read the first call's row and removed it), and like_count
\* moved by exactly that number.
C8_NeverTwoLikes ==
  RaceDone =>
     /\ Cardinality(RaceRows) = RaceAnswers("liked") - RaceAnswers("unliked")
     /\ Cardinality(RaceRows) \in {0, 1}
     /\ tracks[RaceTrack].like_count = Cardinality(RaceOthers) + Cardinality(RaceRows)
     /\ RaceAnswers("liked") <= 1

\* both calls read "not liked", one insert was stored and the other rejected
C8_Witness ==
  /\ RaceDone
  /\ RaceAnswers("liked") = 1
  /\ RaceAnswers("Failed to like content") = 1
  /\ Cardinality(RaceRows) = 1
  /\ tracks[RaceTrack].like_count = Cardinality(RaceOthers) + 1

\* applications: any interleaving of submissions and reviews
SpecApp == Init /\ [][ApplicationNext]_vars

\* C2: every user has at most one creator_applications row whose status is
\* pending or approved, whatever the interleaving of submissions and reviews.
C2_SinglePendingOrApproved ==
  \A u \in UserIds : Cardinality(ActiveApplications(u)) <= 1

\* C3: an application that has left pending (approved or rejected) never
\* changes status again, whichever review handlers race on it.
C3_ReviewedStatusIsFinal ==
  [][\A a \in DOMAIN applications :
       applications[a].status # "pending" => applications'[a].status = applications[a].status]_vars

\* C4: no review that answered "Failed to upgrade user role" leaves its
\* application approved while the applicant is still a listener.
C4_ApprovalAtomicWithPromotion ==
  \A r \in Slots :
    (appReq[r].pc = "done" /\ appReq[r].result = "Failed to upgrade user role") =>
       ~(/\ applications[appReq[r].app].status = "approved"
         /\ users[applications[appReq[r].app].user_id].role = "listener")

\* created_at of the three listeners, in two of the possible signup orders
SignupOrders ==
  {[u \in {"u1", "u2", "u3"} |-> IF u = "u1" THEN 4 ELSE IF u = "u2" THEN 2 ELSE 3],
   [u \in {"u1", "u2", "u3"} |-> IF u = "u1" THEN 3 ELSE IF u = "u2" THEN 4 ELSE 2]}

\* A store after four signups: the admin (made active and admin by
\* create-admin.sql) and three listeners waiting.
InitWaitlist ==
  /\ InitReqs
  /\ \E order \in SignupOrders :
        users = [u \in UserIds |->
          IF u = "a1" THEN [UserRow("admin", "active", 1) EXCEPT !.approved_at = 1]
          ELSE UserRow("listener", "waitlisted", order[u])]
  /\ profiles = [u \in UserIds |-> [username |-> u, display_name |-> NULL]]
  /\ applications = <<>>
  /\ tracks = <<>>
  /\ reels = <<>>
  /\ likes = {}
  /\ storage = {}
  /\ clock = Cardinality(UserIds) + 1
  /\ likeSeq = 1
  /\ appSeq = 1
  /\ objSeq = 1

\* waitlist and moderation: any interleaving of the admin handlers
SpecAdmin == InitWaitlist /\ [][AdminNext]_vars

StatusPair(u) == <<users[u].status, users'[u].status>>

IsEarliestWaitlisted(S, k) ==
  /\ S \subseteq Waitlisted
  /\ Cardinality(S) = IF k <= Cardinality(Waitlisted) THEN k ELSE Cardinality(Waitlisted)
  /\ \A x \in S, w \in Waitlisted \ S : users[x].created_at < users[w].created_at

\* C6: batchApproveUsers(k), 1 <= k <= 100, selects exactly the min(k, N)
\* earliest-created waitlisted accounts; run on that waitlist it sets exactly
\* them to active, changes no other status and reports count = min(k, N); on
\* an empty waitlist it reports count 0 without an error.
C6_BatchApprovesEarliest ==
  [][\A r \in Slots :
       /\ (batchReq[r].pc # "update" /\ batchReq'[r].pc = "update") =>
             IsEarliestWaitlisted(batchReq'[r].userIds, batchReq'[r].count)
       /\ (batchReq[r].pc # "update" /\ batchReq'[r] = BatchDone("No users in waitlist", 0)
            /\ batchReq[r] # batchReq'[r]) => Waitlisted = {}
       /\ (batchReq[r].pc = "update" /\ batchReq'[r].result = "ok"
            /\ IsEarliestWaitlisted(batchReq[r].userIds, batchReq[r].count)) =>
             /\ \A u \in UserIds :
                   users'[u].status = IF u \in batchReq[r].userIds THEN "active"
                                      ELSE users[u].status
             /\ batchReq'[r].approved = Cardinality(batchReq[r].userIds)
             /\ batchReq'[r].approved =
                   IF batchReq[r].count <= Cardinality(Waitlisted) THEN batchReq[r].count
                   ELSE Cardinality(Waitlisted)]_vars

\* a batch of 2 answered while both of the accounts it activated are older than
\* the one still waiting
C6_Witness ==
  /\ \E r \in Slots : batchReq[r] = BatchDone("ok", 2)
  /\ Cardinality(Waitlisted) = 1
  /\ \A u \in UserIds \ {"a1"} : \A w \in Waitlisted :
        u \notin Waitlisted => (users[u].status = "active" /\ users[u].created_at < users[w].created_at)

\* C7: the batch write sets to active only accounts that are waitlisted at the
\* moment of the write; an account banned after the selection stays banned.
C7_BatchWriteIsConditional ==
  [][\A r \in Slots :
       (batchReq[r].pc = "update" /\ batchReq'[r].pc = "done") =>
          \A u \in UserIds :
            users[u].status # "waitlisted" => users'[u].status = users[u].status]_vars

\* ----------------------------------------------------- the username race
RaceName == "neo"
RaceCaller == (1 :> "u1") @@ (2 :> "u2")
OldDisplayNames == {NULL, 7, 8}
NewDisplayNames == {NULL, 9, 10}

\* u1 and u2 hold their own usernames, with or without a display name; nobody
\* holds RaceName
InitNameRace ==
  /\ InitReqs
  /\ \E d1, d2 \in OldDisplayNames :
       profiles = [u \in UserIds |->
                    [username |-> u,
                     display_name |-> IF u = "u1" THEN d1 ELSE IF u = "u2" THEN d2 ELSE NULL]]
  /\ users = [u \in UserIds |->
        IF u = "a1" THEN [UserRow("admin", "active", 1) EXCEPT !.approved_at = 1]
        ELSE IF u = "u1" THEN [UserRow("creator", "active", 2) EXCEPT !.approved_at = 2]
        ELSE IF u = "u2" THEN [UserRow("listener", "active", 3) EXCEPT !.approved_at = 3]
        ELSE UserRow("listener", "waitlisted", 4)]
  /\ applications = (1 :> [AppRow("u1", StoredBody) EXCEPT !.status = "approved", !.reviewed_by = "a1"])
  /\ tracks = (1 :> TrackRow("u1", "song", 101, NULL, 1))
  /\ reels = (2 :> ReelRow("u1", 102, 2))
  /\ likes = {}
  /\ storage = {101, 102}
  /\ clock = 5
  /\ likeSeq = 1
  /\ appSeq = 2
  /\ objSeq = 3

\* each of the two callers sends one PUT /api/users/me/profile asking for RaceName
NameRaceNext ==
  \/ \E r \in Slots, d \in NewDisplayNames :
       /\ profileReq[r].pc = "idle"
       /\ updateUserProfile_check(r, RaceCaller[r], RaceName, d)
  \/ \E r \in Slots : updateUserProfile_update(r)

SpecNameRace == InitNameRace /\ [][NameRaceNext]_vars

NameRaceResults == {profileReq[r].result : r \in Slots}
NameRaceWinners == {r \in Slots : profileReq[r].result = "ok"}

\* C9: usernames are pairwise distinct across profiles; of two updateUserProfile
\* calls racing for the same free username at most one succeeds, and when the
\* store answers both, exactly one succeeds and the other gets ConflictError
\* ("Username already taken") with its profile row left as it was.
C9_UsernameRaceOneWinner ==
  /\ \A u, v \in DOMAIN profiles : u # v => profiles[u].username # profiles[v].username
  /\ Cardinality(NameRaceWinners) <= 1
  /\ (\A r \in Slots : profileReq[r].pc = "done") /\ "error" \notin NameRaceResults
       => NameRaceResults = {"ok", "Username already taken"}
  /\ \A r \in Slots :
       profileReq[r].pc = "done" /\ profileReq[r].result # "ok"
         => /\ profiles[RaceCaller[r]].username = RaceCaller[r]
            /\ profiles[RaceCaller[r]].display_name \in OldDisplayNames

C9_Witness ==
  /\ \A r \in Slots : profileReq[r].pc = "done"
  /\ profileReq[1].result = "Username already taken"
  /\ profileReq[2].result = "ok"
  /\ profiles["u2"].username = RaceName
  /\ profiles["u2"].display_name \in NewDisplayNames \ {NULL}
  /\ profiles["u1"].username = "u1"

\* ------------------------------------------------------- upload compensation
SpecCreate == Init /\ [][CreateNext]_vars

InsertFailed == createResp.result \in {"Failed to create track", "Failed to create reel"}

InitContent ==
  /\ InitReqs
  /\ users = [u \in UserIds |->
        IF u = "a1" THEN [UserRow("admin", "active", 1) EXCEPT !.approved_at = 1]
        ELSE IF u = "u1" THEN [UserRow("creator", "active", 2) EXCEPT !.approved_at = 2]
        ELSE IF u = "u2" THEN [UserRow("creator", "active", 3) EXCEPT !.approved_at = 3]
        ELSE [UserRow("listener", "active", 4) EXCEPT !.approved_at = 4]]
  /\ profiles = [u \in UserIds |-> [username |-> u, display_name |-> NULL]]
  /\ applications = <<>>
  /\ tracks = (1 :> TrackRow("u1", "song", 101, 103, 1))
               @@ (3 :> [TrackRow("u2", "song", 104, NULL, 3) EXCEPT !.is_active = FALSE])
  /\ reels = (2 :> ReelRow("u1", 102, 2)) @@ (4 :> [ReelRow("u2", 105, 4) EXCEPT !.is_active = FALSE])
  /\ likes = {}
  /\ storage = {101, 102, 103, 104, 105}
  /\ clock = 5
  /\ likeSeq = 1
  /\ appSeq = 1
  /\ objSeq = 5

SpecContent == InitContent /\ [][ContentNext]_vars

OwnerRouteOps == {"updateTrack", "deleteTrack", "updateReel", "deleteReel"}

\* the row a content request names, as it stands in table tbl
TargetTable(op) == IF op \in {"updateTrack", "deleteTrack", "admin.deleteTrack"} THEN tracks ELSE reels

\* C11: updateTrack, updateReel, deleteTrack and deleteReel called by an account
\* that is neither the owner of the item nor an admin fail, whether the item is
\* active or inactive, and leave every track row, reel row and media object
\* unchanged.
C11_NonOwnerCannotUpdateOrDelete ==
  [][LET q == contentResp' IN
       (/\ q.op \in OwnerRouteOps
        /\ q.id \in DOMAIN TargetTable(q.op)
        /\ TargetTable(q.op)[q.id].user_id # q.caller
        /\ users[q.caller].role # "admin")
       => /\ q.result \in {"Track not found or unauthorized", "Reel not found or unauthorized",
                             "Insufficient permissions"}
          /\ q.removes = {}
          /\ tracks' = tracks /\ reels' = reels /\ storage' = storage]_vars

\* creator u1 was refused on the inactive track of u2, which is still there
\* with its audio
C11_Witness ==
  /\ contentResp = ContentResp("deleteTrack", "u1", 3, "Track not found or unauthorized", {}, {})
  /\ 3 \in DOMAIN tracks /\ tracks[3].user_id = "u2" /\ ~tracks[3].is_active
  /\ tracks[3].audio_url \in storage

\* C12: a delete through the admin content-moderation routes by an admin that
\* answers "not found" names a row that does not exist: every existing track or
\* reel, whoever owns it, is removed by the admin's delete.
C12_AdminDeleteBypassesOwnership ==
  (/\ contentResp.op \in {"admin.deleteTrack", "admin.deleteReel"}
   /\ contentResp.result \in {"Track not found or unauthorized", "Reel not found or unauthorized"})
  => contentResp.id \notin DOMAIN TargetTable(contentResp.op)

\* ------------------------------------------------------ approval over HTTP
SpecApprove == InitWaitlist /\ [][ApproveNext]_vars

\* C13: an approval request by an admin naming a waitlisted account sets it to
\* active with approved_at stamped; one naming an account that is no longer
\* waitlisted (the second approval) is answered 404 and changes no account.
C13_SecondApprovalIsNotFound ==
  [][\A admin \in AdminCallers, email \in UserIds :
       (adminController_approveUser(admin, email) /\ requireRole(admin, {"admin"}) = "ok") =>
          IF users[email].status = "waitlisted"
          THEN /\ adminResp'.result = "ok"
               /\ users'[email].status = "active"
               /\ users'[email].approved_at # NULL
          ELSE /\ HttpStatuses(adminResp'.result) = {404}
               /\ users' = users]_vars

\* C14: an account's role changes only from listener to creator; no operation
\* changes the role of an account that is creator or admin.
C14_RoleOnlyListenerToCreator ==
  [][\A u \in UserIds :
       users'[u].role # users[u].role =>
          (users[u].role = "listener" /\ users'[u].role = "creator")]_vars

\* ----------------------------------------------------------- moderation
\* callers of the moderation routes: two admins and a listener
ModerationCallers == {"a1", "u1", "u2"}

\* two admins, the second one active or already banned by the first; a
\* waitlisted listener and an active listener
InitModeration ==
  /\ InitReqs
  /\ \E banned \in BOOLEAN :
       users = [u \in UserIds |->
         IF u = "a1" THEN [UserRow("admin", "active", 1) EXCEPT !.approved_at = 1]
         ELSE IF u = "u1"
           THEN IF banned
                THEN [UserRow("admin", "banned", 1) EXCEPT !.approved_at = 1, !.ban_reason = 1,
                                                           !.banned_at = 4]
                ELSE [UserRow("admin", "active", 1) EXCEPT !.approved_at = 1]
         ELSE IF u = "u2" THEN UserRow("listener", "waitlisted", 2)
         ELSE [UserRow("listener", "active", 3) EXCEPT !.approved_at = 3]]
  /\ profiles = [u \in UserIds |-> [username |-> u, display_name |-> NULL]]
  /\ applications = <<>>
  /\ tracks = <<>>
  /\ reels = <<>>
  /\ likes = {}
  /\ storage = {}
  /\ clock = Cardinality(UserIds) + 1
  /\ likeSeq = 1
  /\ appSeq = 1
  /\ objSeq = 1

ModerationNext ==
  \/ \E admin \in ModerationCallers, email \in AdminTargets : approveUser(admin, email)
  \/ \E admin \in ModerationCallers, id \in AdminTargets, reason \in BanReasons :
        banUser(admin, id, reason)
  \/ \E admin \in ModerationCallers, id \in AdminTargets : unbanUser(admin, id)

SpecModeration == InitModeration /\ [][ModerationNext]_vars

\* C15: banUser called by an admin on the admin's own id is answered 400,
\* whatever that admin's status, and changes no account.
C15_SelfBanRejected ==
  [][\A admin \in ModerationCallers, reason \in BanReasons :
       (banUser(admin, admin, reason) /\ requireRole(admin, {"admin"}) = "ok") =>
          /\ adminResp' = AdminResp("banUser", "Cannot ban yourself")
          /\ HttpStatuses(adminResp'.result) = {400}
          /\ users' = users]_vars

\* both admins are banned (each by the other) and the last request was a
\* refused self-ban: its caller was a banned admin
C15_Witness ==
  /\ adminResp = AdminResp("banUser", "Cannot ban yourself")
  /\ \A u \in UserIds : users[u].role = "admin" => users[u].status = "banned"

\* C16: unbanUser by an admin on a banned account sets status active and
\* clears ban_reason and banned_at; on an account that is waitlisted or active,
\* or on an id that names nobody, it is answered 404 and changes nothing.
C16_UnbanOnlyFromBanned ==
  [][\A admin \in ModerationCallers, id \in AdminTargets :
       (unbanUser(admin, id) /\ requireRole(admin, {"admin"}) = "ok") =>
          IF id \in DOMAIN users /\ users[id].status = "banned"
          THEN /\ adminResp'.result = "ok"
               /\ users' = [users EXCEPT ![id].status = "active", ![id].ban_reason = NULL,
                                          ![id].banned_at = NULL]
          ELSE /\ adminResp'.result # "ok"
               /\ HttpStatuses(adminResp'.result) = {404}
               /\ users' = users]_vars

\* an unban has succeeded on an account that had been banned while waitlisted
\* and left no ban field behind
C16_Witness ==
  /\ adminResp = AdminResp("unbanUser", "ok")
  /\ users["u2"].status = "active"
  /\ users["u2"].ban_reason = NULL /\ users["u2"].banned_at = NULL
  /\ users["u2"].approved_at = NULL

\* ------------------------------------------------- role and status together
ReviewNotes == {NoNotes, "notes"}

\* the admin, the listener who applies, the listeners moderated
AxesAdmins == {"a1"}
AxesApplicants == {"u2"}
AxesListeners == {"u2", "u3"}
AxesCounts == {1}

\* one application request at a time, interleaved with the waitlist and
\* moderation handlers
AxesNext ==
  \/ \E uid \in AxesApplicants, body \in SubmitBodies :
        submitCreatorApplication_check(1, uid, body)
  \/ submitCreatorApplication_insert(1)
  \/ \E op \in ReviewOps, admin \in AxesAdmins, app \in ApplicationIdInputs,
        decision \in {"approved", "rejected"}, notes \in ReviewNotes :
        review_fetch(1, op, admin, app, decision, notes)
  \/ review_updateApp(1)
  \/ rejectCreatorApplication_update(1)
  \/ review_updateRole(1)
  \/ \E admin \in AxesAdmins, email \in AxesListeners : approveUser(admin, email)
  \/ \E admin \in AxesAdmins, id \in AxesListeners, reason \in BanReasons :
        banUser(admin, id, reason)
  \/ \E admin \in AxesAdmins, id \in AxesListeners : unbanUser(admin, id)
  \/ \E admin \in AxesAdmins, count \in AxesCounts : batchApproveUsers_select(1, admin, count)
  \/ batchApproveUsers_update(1)

SpecAxes == Init /\ [][AxesNext]_vars

\* the status side of a users row
StatusSide(row) == <<row.status, row.approved_at, row.ban_reason, row.banned_at>>

\* C17: a step that changes some account's role is the role write of an
\* application approval and changes no status; a step of waitlist approval,
\* batch approval, ban or unban changes no role; no step of an application
\* request changes any account's status; a review that answers rejected, with
\* or without notes, has set the application to rejected and changed no
\* account.
C17_RoleAndStatusIndependent ==
  [][/\ \A u \in UserIds :
          users'[u].role # users[u].role =>
             /\ appReq[1].pc = "updateRole" /\ appReq'[1].pc = "done"
             /\ adminResp' = adminResp /\ batchReq' = batchReq
             /\ \A v \in UserIds : StatusSide(users'[v]) = StatusSide(users[v])
     /\ (adminResp' # adminResp \/ batchReq' # batchReq) =>
          \A u \in UserIds : users'[u].role = users[u].role
     /\ appReq' # appReq => \A u \in UserIds : StatusSide(users'[u]) = StatusSide(users[u])
     /\ (appReq[1].pc = "updateApp" /\ appReq'[1].pc = "done" /\ appReq'[1].result = "rejected") =>
          /\ applications'[appReq[1].app].status = "rejected"
          /\ users' = users]_vars

\* a review with notes answered rejected: the application is rejected, the
\* applicant is still a listener, and has meanwhile been banned
C17_Witness ==
  /\ appReq[1].pc = "done" /\ appReq[1].op = "review" /\ appReq[1].result = "rejected"
  /\ applications[appReq[1].app].status = "rejected"
  /\ applications[appReq[1].app].admin_notes = "notes"
  /\ users[applications[appReq[1].app].user_id].role = "listener"
  /\ users[applications[appReq[1].app].user_id].status = "banned"

\* C18: a review request that found its application already reviewed is
\* answered 409, and one that found no application is answered 404.
C18_StaleReviewIsConflict ==
  \A r \in Slots :
    (appReq[r].pc = "done" /\ appReq[r].op \in ReviewOps) =>
       /\ appReq[r].result \in {"Application has already been reviewed",
                                 "Application already processed",
                                 "Application not found or already processed"}
            => HttpStatuses(appReq[r].result) = {409}
       /\ appReq[r].result \in {"Application not found", "fetchError"}
            => HttpStatuses(appReq[r].result) = {404}

\* C19: a submission refused because the caller already has a pending or
\* approved application is answered 409.
C19_DuplicateSubmitIsConflict ==
  \A r \in Slots :
    (/\ appReq[r].pc = "done" /\ appReq[r].op = "submit"
     /\ appReq[r].result \in {"You already have a pending application",
                               "You are already a creator"})
    => HttpStatuses(appReq[r].result) = {409}

\* ------------------------------------------------------------------- follows
SpecFollow == Init /\ [][FollowNext]_vars

\* C20: follows holds at most one row per ordered pair (follower, following)
\* and no row whose follower is its following, whatever the interleaving of
\* followUser and unfollowUser calls.
C20_FollowsUniquePerPair ==
  /\ \A f, g \in follows :
        (f.follower_id = g.follower_id /\ f.following_id = g.following_id) => f = g
  /\ \A f \in follows : f.follower_id # f.following_id

\* two followUser(u2, u1) calls both found no row; one insert was stored and
\* the other refused
C20_Witness ==
  /\ followReq[1] = FollowDone("follow", "followed")
  /\ followReq[2] = FollowDone("follow", "Failed to follow user")
  /\ Cardinality(FollowRows("u2", "u1")) = 1
  /\ Cardinality(follows) = 1

\* C21: a followUser that follows oneself fails with a Validation error, one
\* whose target is absent with NotFound, and one whose pair already exists
\* with Conflict.
C21_FollowFailureKinds ==
  \A r \in Slots :
    (followReq[r].pc = "done" /\ followReq[r].op = "follow") =>
       /\ followReq[r].result = "You cannot follow yourself"
            => ThrownError(followReq[r].result) = ValidationError
       /\ followReq[r].result = "Target user not found"
            => ThrownError(followReq[r].result) = NotFoundError
       /\ followReq[r].result = "Already following this user"
            => ThrownError(followReq[r].result) = ConflictError

\* ------------------------------------------------------------------ listings
\* two creators with tracks and reels, created in an order that is not the
\* order of their ids; u2's second track is inactive
InitListing ==
  /\ InitReqs
  /\ users = [u \in UserIds |->
        IF u = "a1" THEN [UserRow("admin", "active", 1) EXCEPT !.approved_at = 1]
        ELSE IF u = "u1" THEN [UserRow("creator", "active", 2) EXCEPT !.approved_at = 2]
        ELSE IF u = "u2" THEN [UserRow("creator", "active", 3) EXCEPT !.approved_at = 3]
        ELSE [UserRow("listener", "active", 4) EXCEPT !.approved_at = 4]]
  /\ profiles = [u \in UserIds |-> [username |-> u, display_name |-> NULL]]
  /\ applications = <<>>
  /\ tracks = (1 :> TrackRow("u1", "song", 101, 103, 4))
               @@ (3 :> [TrackRow("u2", "Tune", 104, NULL, 2) EXCEPT !.is_active = FALSE])
  /\ reels = (2 :> ReelRow("u1", 102, 3)) @@ (4 :> ReelRow("u2", 105, 4))
  /\ likes = {}
  /\ storage = {101, 102, 103, 104, 105}
  /\ clock = 5
  /\ likeSeq = 1
  /\ appSeq = 1
  /\ objSeq = 5

\* the owner of a listed row; the calls of others are refused before any write
ListedOwner(id) == IF id \in {1, 2} THEN "u1" ELSE "u2"

ListingNext ==
  \/ ListNext
  \/ \E id \in TrackIdInputs, updates \in ContentUpdates :
        updateTrack(id, ListedOwner(id), updates)
  \/ deleteTrack(3, ListedOwner(3))
  \/ \E id \in ReelIdInputs, updates \in ContentUpdates :
        updateReel(id, ListedOwner(id), updates)
  \/ createTrack("u1", "Tune", File("audio/mpeg", 10), NoFile)

SpecListing == InitListing /\ [][ListingNext]_vars

DefaultListings == {"getAllTracks", "searchTracks", "getUserTracks", "getReelFeed", "getUserReels"}

ListedTable(op) == IF op \in {"getReelFeed", "getUserReels"} THEN reels ELSE tracks

\* C22: whatever creates, updates of is_active and deletes came before, a
\* listing answered by getAllTracks, searchTracks, getReelFeed or a per-user
\* listing without includeInactive holds only rows whose is_active is true, in
\* descending order of created_at.
C22_ListingsActiveAndNewestFirst ==
  [][(/\ listResp' # listResp
      /\ listResp'.op \in DefaultListings
      /\ listResp'.result = "ok"
      /\ ~listResp'.includeInactive)
     => LET items == listResp'.items
            tbl == ListedTable(listResp'.op)
        IN /\ \A i \in 1..Len(items) : items[i] \in DOMAIN tbl /\ tbl[items[i]].is_active = TRUE
           /\ \A i, j \in 1..Len(items) :
                i < j => tbl[items[i]].created_at >= tbl[items[j]].created_at]_vars

\* the owner set track 1 inactive; the listing that follows holds the newer
\* track before the older one and not track 1
C22_Witness ==
  /\ listResp.op = "getAllTracks" /\ listResp.result = "ok"
  /\ 1 \in DOMAIN tracks /\ ~tracks[1].is_active
  /\ 3 \in DOMAIN tracks /\ tracks[3].is_active
  /\ Len(listResp.items) = 2
  /\ listResp.items[2] = 3
  /\ \A i \in 1..Len(listResp.items) : listResp.items[i] # 1

\* -------------------------------------------------------------- notifications
\* the store of Init under a server started with or without a mail client
InitMail ==
  /\ InitStore
  /\ InitCalls
  /\ emailClient \in BOOLEAN
  /\ NODE_ENV = "production"
  /\ authResp = NoAuth
  /\ pairLog = NoPair
  /\ outbox = {}

MailApplicants == {"u2"}
MailWaitlisted == {"u3"}

MailNext ==
  \/ \E uid \in MailApplicants, body \in SubmitBodies :
        submitCreatorApplication_check(1, uid, body)
  \/ submitCreatorApplication_insert(1)
  \/ \E op \in ReviewOps, admin \in AxesAdmins, app \in ApplicationIdInputs,
        decision \in {"approved", "rejected"} :
        review_fetch(1, op, admin, app, decision, NoNotes)
  \/ review_updateApp(1)
  \/ rejectCreatorApplication_update(1)
  \/ review_updateRole(1)
  \/ \E admin \in AxesAdmins, email \in MailWaitlisted : approveUser(admin, email)
  \/ \E admin \in AxesAdmins, id \in MailWaitlisted, reason \in BanReasons :
        banUser(admin, id, reason)
  \/ \E admin \in AxesAdmins, id \in MailWaitlisted : unbanUser(admin, id)
  \/ \E admin \in AxesAdmins, count \in AxesCounts : batchApproveUsers_select(1, admin, count)
  \/ batchApproveUsers_update(1)

SpecMail == InitMail /\ [][MailNext]_vars

\* the transition an attempt of kind announces to account to is in the store
Persisted(kind, to, usersAfter, applicationsAfter) ==
  CASE kind = "waitlist_approval" -> usersAfter[to].status = "active"
    [] kind = "creator_approval" ->
         /\ usersAfter[to].role = "creator"
         /\ \E a \in DOMAIN applicationsAfter :
              applicationsAfter[a].user_id = to /\ applicationsAfter[a].status = "approved"
    [] kind = "creator_rejection" ->
         \E a \in DOMAIN applicationsAfter :
              applicationsAfter[a].user_id = to /\ applicationsAfter[a].status = "rejected"

\* the handler that made attempt m answered success
AnsweredSuccess(m, adminRespAfter, appReqAfter) ==
  IF m.kind = "waitlist_approval"
  THEN adminRespAfter = AdminResp("approveUser", "ok")
  ELSE \E r \in Slots :
         /\ appReqAfter[r].pc = "done"
         /\ appReqAfter[r].result = (IF m.kind = "creator_approval" THEN "approved" ELSE "rejected")
         /\ applications'[appReqAfter[r].app].user_id = m.to

\* C23: a notification is attempted only in a step that leaves the announced
\* transition stored, and the handler answers success with that state stored
\* whether the send fails or not.
C23_NotifyAfterCommitNeverFails ==
  [][\A m \in outbox' \ outbox :
       /\ Persisted(m.kind, m.to, users', applications')
       /\ AnsweredSuccess(m, adminResp', appReq')]_vars

\* a failed approval mail and a failed creator-approval mail, with both
\* transitions stored
C23_Witness ==
  /\ [kind |-> "waitlist_approval", to |-> "u3", failed |-> TRUE] \in outbox
  /\ [kind |-> "creator_approval", to |-> "u2", failed |-> TRUE] \in outbox
  /\ users["u3"].status = "active"
  /\ users["u2"].role = "creator"
  /\ appReq[1].pc = "done" /\ appReq[1].op = "approve" /\ appReq[1].result = "approved"

\* C24: with the mail client configured, every step that stores a waitlist
\* approval (single or batch) and every creator-application review that ends
\* approved or rejected (through either path) leaves a notification attempt of
\* the matching kind to the affected account.
C24_EveryApprovalNotified ==
  [][emailClient =>
       /\ \A u \in DOMAIN users :
            (users[u].status = "waitlisted" /\ users'[u].status = "active")
            => \E m \in outbox' : m.kind = "waitlist_approval" /\ m.to = u
       /\ \A r \in Slots :
            (/\ appReq[r].pc # "done" /\ appReq'[r].pc = "done"
             /\ appReq'[r].result \in {"approved", "rejected"})
            => \E m \in outbox' :
                 /\ m.kind = (IF appReq'[r].result = "approved" THEN "creator_approval"
                              ELSE "creator_rejection")
                 /\ m.to = applications'[appReq'[r].app].user_id]_vars

\* ------------------------------------------------------- requireActive routes
\* a banned creator with a track and a reel, a waitlisted listener, an active
\* listener and the admin
InitGuard ==
  /\ InitReqs
  /\ users = [u \in UserIds |->
        IF u = "a1" THEN [UserRow("admin", "active", 1) EXCEPT !.approved_at = 1]
        ELSE IF u = "u1" THEN [UserRow("creator", "banned", 2) EXCEPT
                                 !.approved_at = 2, !.ban_reason = 1, !.banned_at = 5]
        ELSE IF u = "u2" THEN UserRow("listener", "waitlisted", 3)
        ELSE [UserRow("listener", "active", 4) EXCEPT !.approved_at = 4]]
  /\ profiles = [u \in UserIds |-> [username |-> u, display_name |-> NULL]]
  /\ applications = <<>>
  /\ tracks = (1 :> TrackRow("u1", "song", 101, NULL, 1))
  /\ reels = (2 :> ReelRow("u1", 102, 2))
  /\ likes = {}
  /\ storage = {101, 102}
  /\ clock = 6
  /\ likeSeq = 1
  /\ appSeq = 1
  /\ objSeq = 3

GuardCallers == {"u1", "u2", "u3"}
InactiveCallers == {"u1", "u2"}
GuardUsernames == {Undefined, "neo"}
GuardLikeTypes == {"track"}

\* every route behind requireActive called by the banned and the waitlisted
\* account; the active listener calls follow and unfollow
GuardNext ==
  \/ \E uid \in InactiveCallers, ctype \in GuardLikeTypes, cid \in TrackIdInputs :
        toggleLike_read(1, uid, ctype, cid)
  \/ \E uid \in InactiveCallers, username \in GuardUsernames :
        updateUserProfile_check(1, uid, username, NULL)
  \/ \E uid \in GuardCallers : followUser_target(1, uid, "a1")
  \/ followUser_existing(1)
  \/ followUser_insert(1)
  \/ \E uid \in GuardCallers : unfollowUser(1, uid, "a1")
  \/ \E uid \in InactiveCallers : createTrack(uid, "song", File("audio/mpeg", 10), NoFile)
  \/ \E uid \in InactiveCallers : createReel(uid, File("video/mp4", 40))
  \/ \E uid \in InactiveCallers, updates \in ContentUpdates : updateTrack(1, uid, updates)
  \/ \E uid \in InactiveCallers : deleteTrack(1, uid)
  \/ \E uid \in InactiveCallers, updates \in ContentUpdates : updateReel(2, uid, updates)
  \/ \E uid \in InactiveCallers : deleteReel(2, uid)

SpecGuard == InitGuard /\ [][GuardNext]_vars

\* the reason requireActive gives an account that is waitlisted or banned
DenialReason(uid) ==
  IF users[uid].status = "waitlisted" THEN "Account pending approval"
  ELSE "Account has been banned"

\* C25: a request of a waitlisted or banned caller to a route behind
\* requireActive (profile update, follow, unfollow, like toggle, create, update
\* and delete of content) is answered 'Account pending approval' or 'Account
\* has been banned' according to the caller's status, and changes no table.
C25_InactiveCallerDenied ==
  [][\A uid \in InactiveCallers :
       users[uid].status \in {"waitlisted", "banned"} =>
         /\ (/\ toggleReq' # toggleReq
             /\ \E ctype \in GuardLikeTypes, cid \in TrackIdInputs :
                  toggleLike_read(1, uid, ctype, cid))
              => /\ toggleReq'[1].pc = "done" /\ toggleReq'[1].result = DenialReason(uid)
                 /\ UNCHANGED <<dbVars, follows>>
         /\ (/\ profileReq' # profileReq
             /\ \E username \in GuardUsernames : updateUserProfile_check(1, uid, username, NULL))
              => /\ profileReq'[1] = ProfileDone(DenialReason(uid))
                 /\ UNCHANGED <<dbVars, follows>>
         /\ (followReq' # followReq /\ followUser_target(1, uid, "a1"))
              => /\ followReq'[1] = FollowDone("follow", DenialReason(uid))
                 /\ UNCHANGED <<dbVars, follows>>
         /\ (followReq' # followReq /\ unfollowUser(1, uid, "a1"))
              => /\ followReq'[1] = FollowDone("unfollow", DenialReason(uid))
                 /\ UNCHANGED <<dbVars, follows>>
         /\ (/\ createResp' # createResp
             /\ \/ createTrack(uid, "song", File("audio/mpeg", 10), NoFile)
                \/ createReel(uid, File("video/mp4", 40)))
              => /\ createResp'.result = DenialReason(uid)
                 /\ UNCHANGED <<dbVars, follows>>
         /\ (/\ contentResp' # contentResp
             /\ \/ \E updates \in ContentUpdates :
                     updateTrack(1, uid, updates) \/ updateReel(2, uid, updates)
                \/ deleteTrack(1, uid) \/ deleteReel(2, uid))
              => /\ contentResp'.result = DenialReason(uid)
                 /\ UNCHANGED <<dbVars, follows>>]_vars

\* the banned owner was refused the delete of their track, the waitlisted
\* listener was refused a follow, and both rows are as they were
C25_Witness ==
  /\ contentResp.op = "deleteTrack" /\ contentResp.caller = "u1"
  /\ contentResp.result = "Account has been banned"
  /\ users["u1"].status = "banned"
  /\ followReq[1] = FollowDone("follow", "Account pending approval")
  /\ 1 \in DOMAIN tracks
  /\ follows = {}

\* C26: a waitlisted account can submit a creator application: its
\* submission is not refused for the account being waitlisted.
C26_WaitlistedCanSubmit ==
  [][\A r \in Slots, uid \in Submitters, body \in SubmitBodies :
       (users[uid].status = "waitlisted" /\ submitCreatorApplication_check(r, uid, body))
       => appReq'[r].result # "Account pending approval"]_vars

\* ---------------------------------------------------------- play and view counts
\* u1's active track 1 and reel 2, u2's inactive track 3
InitCounter ==
  /\ InitReqs
  /\ users = [u \in UserIds |->
        IF u = "a1" THEN [UserRow("admin", "active", 1) EXCEPT !.approved_at = 1]
        ELSE IF u = "u1" THEN [UserRow("creator", "active", 2) EXCEPT !.approved_at = 2]
        ELSE IF u = "u2" THEN [UserRow("creator", "active", 3) EXCEPT !.approved_at = 3]
        ELSE [UserRow("listener", "active", 4) EXCEPT !.approved_at = 4]]
  /\ profiles = [u \in UserIds |-> [username |-> u, display_name |-> NULL]]
  /\ applications = <<>>
  /\ tracks = (1 :> TrackRow("u1", "song", 101, NULL, 1))
               @@ (3 :> [TrackRow("u2", "Tune", 104, NULL, 3) EXCEPT !.is_active = FALSE])
  /\ reels = (2 :> ReelRow("u1", 102, 2))
  /\ likes = {}
  /\ storage = {101, 102, 104}
  /\ clock = 5
  /\ likeSeq = 1
  /\ appSeq = 1
  /\ objSeq = 5

\* ids a client may put in /:id/play and /:id/view: the rows and one that
\* names nothing
PlayIdInputs == {1, 3, NoSuchId}
ViewIdInputs == {2, NoSuchId}

CounterNext ==
  \/ \E id \in PlayIdInputs : playTrack(id)
  \/ \E id \in ViewIdInputs : viewReel(id)
  \/ \E id \in TrackIdInputs, updates \in ContentUpdates :
        updateTrack(id, ListedOwner(id), updates)
  \/ \E updates \in ContentUpdates : updateReel(2, ListedOwner(2), updates)
  \/ deleteTrack(3, ListedOwner(3))
  \/ deleteReel(2, ListedOwner(2))

SpecCounter == InitCounter /\ [][CounterNext]_vars

\* C27 as stated: a play or view request is answered 200 whatever the rpc did,
\* a request whose rpc did not fail raises the count of the existing item it
\* names by exactly 1, and no step lowers a play_count or view_count.
C27_EveryCallOnExistingItemCounts ==
  [][/\ \A id \in PlayIdInputs :
          (playTrack(id) /\ ~listResp'.rpcError /\ id \in DOMAIN tracks)
          => tracks'[id].play_count = tracks[id].play_count + 1
     /\ \A id \in ViewIdInputs :
          (viewReel(id) /\ ~listResp'.rpcError /\ id \in DOMAIN reels)
          => reels'[id].view_count = reels[id].view_count + 1]_vars

\* C27, amended: a play or view request is answered 200 whatever the rpc did;
\* a request whose rpc did not fail raises the count of the item it names by
\* exactly 1 when that item exists and is active, and changes nothing
\* otherwise; no step lowers the play_count or view_count of a row.
C27_CountsActiveItemsOnly ==
  [][/\ \A id \in PlayIdInputs :
          playTrack(id) =>
            /\ listResp'.result = "ok"
            /\ IF ~listResp'.rpcError /\ id \in DOMAIN tracks /\ tracks[id].is_active
               THEN tracks' = [tracks EXCEPT ![id].play_count = @ + 1]
               ELSE tracks' = tracks
     /\ \A id \in ViewIdInputs :
          viewReel(id) =>
            /\ listResp'.result = "ok"
            /\ IF ~listResp'.rpcError /\ id \in DOMAIN reels /\ reels[id].is_active
               THEN reels' = [reels EXCEPT ![id].view_count = @ + 1]
               ELSE reels' = reels
     /\ \A id \in DOMAIN tracks \cap DOMAIN tracks' :
          tracks'[id].play_count >= tracks[id].play_count
     /\ \A id \in DOMAIN reels \cap DOMAIN reels' :
          reels'[id].view_count >= reels[id].view_count]_vars

\* track 1 was played twice, the last play answered without an rpc
\* error; the inactive track 3 still counts no play
C27_Witness ==
  /\ listResp = CounterResp("playTrack", 1, "ok", FALSE)
  /\ tracks[1].play_count = 2
  /\ 3 \in DOMAIN tracks /\ ~tracks[3].is_active /\ tracks[3].play_count = 0

\* ------------------------------------------------- application field lengths
\* texts at and around the limits, with and without white space at the ends
ArtistNames == {Str(0, 0, 0), Str(0, 1, 0), Str(0, 2, 0), Str(1, 1, 0), Str(0, 100, 0),
                Str(0, 101, 0)}
ApplicationReasons == {Str(0, 40, 0), Str(0, 50, 0), Str(0, 49, 1), Str(0, 2000, 0),
                       Str(0, 2001, 0)}
LengthBodies == [artist_name : ArtistNames, application_reason : ApplicationReasons]

SubmitNext ==
  \/ \E uid \in AxesApplicants, body \in LengthBodies :
        submitCreatorApplication_check(1, uid, body)
  \/ submitCreatorApplication_insert(1)
  \/ \E admin \in AxesAdmins, app \in ApplicationIdInputs :
        review_fetch(1, "review", admin, app, "rejected", NoNotes)
  \/ review_updateApp(1)

SpecSubmit == Init /\ [][SubmitNext]_vars

\* C28: a submission whose artist name has fewer than 2 or more than 100
\* characters, or whose reason has fewer than 50 or more than 2000, is refused
\* with a validation error and stores nothing, and every stored application
\* has an artist name of 2..100 and a reason of 50..2000 characters.
C28_StoredApplicationLengthsInBounds ==
  \A a \in DOMAIN applications :
    /\ StrLen(applications[a].artist_name) >= 2
    /\ StrLen(applications[a].artist_name) <= 100
    /\ StrLen(applications[a].application_reason) >= 50
    /\ StrLen(applications[a].application_reason) <= 2000

\* ------------------------------------------------- media category constraints
\* constants.FILE_LIMITS, sizes in megabytes
FILE_LIMITS ==
  [AUDIO |-> [MAX_SIZE |-> 15, ALLOWED_TYPES |-> {"audio/mpeg", "audio/mp3"}],
   VIDEO |-> [MAX_SIZE |-> 50, ALLOWED_TYPES |-> {"video/mp4"}],
   IMAGE |-> [MAX_SIZE |-> 5,
              ALLOWED_TYPES |-> {"image/jpeg", "image/jpg", "image/png", "image/webp"}]]

\* the file is within FILE_LIMITS of its category
WithinLimits(file, category) ==
  /\ file.mimetype \in FILE_LIMITS[category].ALLOWED_TYPES
  /\ file.size <= FILE_LIMITS[category].MAX_SIZE

\* files tried: on, between and above the limits of FILE_LIMITS and MAX_SIZES
UploadAudio == {File("audio/mpeg", 15), File("audio/mpeg", 20), File("audio/wav", 10),
                File("audio/mpeg", 51)}
UploadCovers == {NoFile, File("image/png", 5), File("image/png", 6), File("image/gif", 1)}
UploadVideo == {File("video/mp4", 50), File("video/mp4", 60), File("video/webm", 40),
                File("video/mp4", 101)}

UploadNext ==
  \/ \E uid \in {"a1", "u1", "u2"}, audioFile \in UploadAudio, coverFile \in UploadCovers :
       createTrack(uid, "song", audioFile, coverFile)
  \/ \E uid \in {"a1", "u1", "u2"}, videoFile \in UploadVideo : createReel(uid, videoFile)

SpecUpload == Init /\ [][UploadNext]_vars

\* C29: every payload handed to the bucket upload is within the limits of its
\* category: an audio file that createTrack uploads is at most 15MB of an
\* allowed audio type, a cover at most 5MB of an allowed image type, and a
\* video that createReel uploads at most 50MB of type video/mp4.
C29_OnlyPayloadsWithinLimitsArePut ==
  [][/\ \A uid \in {"a1", "u1", "u2"}, audioFile \in UploadAudio, coverFile \in UploadCovers :
          createTrack(uid, "song", audioFile, coverFile) =>
            /\ createResp'.puts # {} => WithinLimits(audioFile, "AUDIO")
            /\ Cardinality(createResp'.puts) = 2 => WithinLimits(coverFile, "IMAGE")
     /\ \A uid \in {"a1", "u1", "u2"}, videoFile \in UploadVideo :
          createReel(uid, videoFile) =>
            (createResp'.puts # {} => WithinLimits(videoFile, "VIDEO"))]_vars

\* ------------------------------------------------------ authenticated routes
Environments == {"production", "development", "test"}

\* the store of Init under a server started in any environment
InitAuth ==
  /\ InitStore
  /\ InitCalls
  /\ emailClient = FALSE
  /\ outbox = {}
  /\ NODE_ENV \in Environments
  /\ authResp = NoAuth
  /\ pairLog = NoPair

\* headers tried: none, a scheme other than Bearer, a bare scheme, an unknown
\* token, and the tokens of an active, a waitlisted and an unregistered user
AuthHeaders == {NoHeader, <<"Basic", "t_u1">>, <<"Bearer">>, <<"Bearer", "t_bad">>,
                <<"Bearer", "t_u1">>, <<"Bearer", "t_u3">>, <<"Bearer", "t_new">>}

AuthNext ==
  \/ \E authHeader \in AuthHeaders : getCurrentUser(authHeader)
  \/ \E authHeader \in AuthHeaders, display_name \in {NULL, 9} :
       updateProfile(1, authHeader, Undefined, display_name)
  \/ updateUserProfile_update(1)

SpecAuth == InitAuth /\ [][AuthNext]_vars

\* the header carries a token that verifyToken accepts
ValidBearer(authHeader) == extractToken(authHeader) \in DOMAIN Sessions

\* C30: in every environment, a request to GET /api/users/me or
\* PUT /api/users/me/profile without a valid bearer token is answered 401 and
\* does not reach the route's handler, and when it carries no token at all the
\* message is "No token provided".
C30_NoValidTokenIs401 ==
  (authResp.route # "none" /\ ~ValidBearer(authResp.authHeader)) =>
    /\ ~authResp.handled
    /\ AuthStatuses = {401}
    /\ extractToken(authResp.authHeader) = NoToken => authResp.result = "No token provided"

\* ------------------------------------------------------------ error rendering
\* the status code each error class is raised with
ClassStatus ==
  [n \in {"ValidationError", "AuthenticationError", "AuthorizationError", "NotFoundError",
          "ConflictError"} |->
     CASE n = "ValidationError" -> 400
       [] n = "AuthenticationError" -> 401
       [] n = "AuthorizationError" -> 403
       [] n = "NotFoundError" -> 404
       [] OTHER -> 409]

\* the status errorHandler is to answer for an error: that of its class, and
\* 500 for an error of no class
ExpectedStatus(err) ==
  IF err.name \in DOMAIN ClassStatus THEN ClassStatus[err.name]
  ELSE IF err.name = "AppError" THEN err.statusCode
  ELSE 500

\* C31: every error a followUser or unfollowUser call raises is answered with
\* the status code of its class (400 ValidationError, 401 AuthenticationError,
\* 403 AuthorizationError, 404 NotFoundError, 409 ConflictError) and with 500
\* only when it has no class.
C31_ErrorsAnsweredWithClassStatus ==
  \A r \in Slots :
    (followReq[r].pc = "done" /\ followReq[r].result \notin {"followed", "unfollowed"}) =>
      errorHandler(ThrownError(followReq[r].result)) =
        {ExpectedStatus(ThrownError(followReq[r].result))}

\* ------------------------------------------------------------ media references
\* ids tried by the deletes: the rows of Init and the first row a create stores
MediaTrackIds == {1, 5}
MediaReelIds == {2, 5}

\* creates and deletes by the creator u1 and the admin a1, in any order
MediaNext ==
  \/ \E uid \in {"u1", "a1"}, audioFile \in {File("audio/mpeg", 10)},
        coverFile \in {NoFile, File("image/png", 1), File("image/png", 6)} :
       createTrack(uid, "song", audioFile, coverFile)
  \/ \E uid \in {"u1", "a1"} : createReel(uid, File("video/mp4", 40))
  \/ \E id \in MediaTrackIds, uid \in {"u1", "a1"} : deleteTrack(id, uid)
  \/ \E id \in MediaReelIds, uid \in {"u1", "a1"} : deleteReel(id, uid)
  \/ \E id \in MediaTrackIds : adminController_deleteTrack("a1", id)
  \/ \E id \in MediaReelIds : adminController_deleteReel("a1", id)

SpecMedia == Init /\ [][MediaNext]_vars

\* C32: every persisted track references an audio object, and a cover object if
\* it has one, that is in storage, and every persisted reel a video object that
\* is in storage; a delete whose row delete failed removed no object.
C32_RowsReferenceStoredMedia ==
  /\ \A id \in DOMAIN tracks :
       /\ tracks[id].audio_url \in storage
       /\ tracks[id].cover_url # NULL => tracks[id].cover_url \in storage
  /\ \A id \in DOMAIN reels : reels[id].video_url \in storage
  /\ contentResp.result \in {"Failed to delete track", "Failed to delete reel"}
       => contentResp.removes = {}

\* a delete of track 1 failed on its row and kept the row and its audio, while
\* a create whose insert failed removed what it had uploaded, and an earlier
\* create left a row with its media
C32_Witness ==
  /\ contentResp.result = "Failed to delete track"
  /\ 1 \in DOMAIN tracks /\ tracks[1].audio_url \in storage
  /\ createResp.result = "Failed to create track"
  /\ createResp.removes # {}
  /\ \E id \in DOMAIN tracks : id # 1 /\ tracks[id].cover_url \in storage

\* ------------------------------------------------------- orphaned uploads
\* C33: when createTrack fails after at least one of its uploads succeeded, and
\* no delete it issued failed, no object it uploaded is left in storage.
C33_NoUploadSurvivesFailedCreate ==
  (/\ createResp.op = "createTrack"
   /\ createResp.result # "created"
   /\ createResp.puts # {}
   /\ createResp.failedRemoves = {})
  => createResp.puts \cap storage = {}

\* ------------------------------------------------------- approval written once
\* C34: under any interleaving of approveUser and batchApproveUsers calls, an
\* account's approved_at is written once: no step changes an approved_at that
\* is already set, so no account is approved by two calls.
C34_ApprovedAtWrittenOnce ==
  [][\A u \in UserIds :
       users[u].approved_at # NULL => users'[u].approved_at = users[u].approved_at]_vars

\* ------------------------------------------------ moderation by inactive admins
\* C35: an account whose status is not active is denied every moderation
\* operation even when its role is admin: approveUser, banUser and unbanUser
\* (unbanning itself included) called by it change no account.
C35_InactiveAdminDenied ==
  [][\A admin \in ModerationCallers, id \in AdminTargets :
       ((\/ approveUser(admin, id)
         \/ unbanUser(admin, id)
         \/ \E reason \in BanReasons : banUser(admin, id, reason))
        /\ requireActive(admin) # "ok")
       => users' = users]_vars

\* --------------------------------------------------- creators and applications
\* C36: an account created with role listener has role creator only if one of
\* its applications currently has status approved, whatever the interleaving of
\* submit, review, approve and reject calls.
C36_CreatorHasApprovedApplication ==
  \A u \in Listeners :
    users[u].role = "creator" =>
      \E a \in DOMAIN applications :
        applications[a].user_id = u /\ applications[a].status = "approved"

\* ------------------------------------------------------- likes and their content
\* C37: every like row designates a content item that exists: a track for
\* content_type track, a reel for content_type reel.
C37_LikesDesignateExistingContent ==
  \A l \in likes :
    \/ l.content_type = "track" /\ l.content_id \in DOMAIN tracks
    \/ l.content_type = "reel" /\ l.content_id \in DOMAIN reels

\* ------------------------------------------------------ toggling twice in a row
\* frame of a step that belongs to a pair of successive calls
notTogglePair == <<appReq, batchReq, profileReq, adminResp, createResp, contentResp,
                   socialVars, readVars, mailVars, authVars>>

\* the Like relation: who likes what
LikeRelation == {<<l.user_id, l.content_type, l.content_id>> : l \in likes}

\* the table a content type names
ContentTable(ctype) == IF ctype = "track" THEN tracks ELSE reels

\* a client starts toggleLike(uid, ctype, cid) on an existing item, no other
\* call being under way, and notes the Like relation and the item's like_count
pair_first_select(uid, ctype, cid) ==
  /\ pairLog.calls \in {0, 2}
  /\ ctype \in CONTENT_TYPES
  /\ cid \in DOMAIN ContentTable(ctype)
  /\ toggleLike_select(1, uid, ctype, cid)
  /\ pairLog' = [calls |-> 0, user_id |-> uid, content_type |-> ctype, content_id |-> cid,
                 before |-> LikeRelation,
                 like_count |-> ContentTable(ctype)[cid].like_count, liked |-> <<>>]
  /\ UNCHANGED notTogglePair

\* the write of the call under way; the client notes the liked value of the
\* answer, and gives up the pair when the call fails
pair_write ==
  /\ toggleLike_insert(1) \/ toggleLike_delete(1)
  /\ pairLog' = IF toggleReq'[1].result \in {"liked", "unliked"}
                THEN [pairLog EXCEPT !.calls = @ + 1,
                                     !.liked = Append(@, toggleReq'[1].result = "liked")]
                ELSE NoPair
  /\ UNCHANGED notTogglePair

\* the same client repeats the call right after the first answer
pair_second_select ==
  /\ pairLog.calls = 1
  /\ toggleLike_select(1, pairLog.user_id, pairLog.content_type, pairLog.content_id)
  /\ UNCHANGED pairLog
  /\ UNCHANGED notTogglePair

PairNext ==
  \/ \E uid \in Listeners, ctype \in CONTENT_TYPES, cid \in ContentIdInputs :
        pair_first_select(uid, ctype, cid)
  \/ pair_write
  \/ pair_second_select

SpecPair == Init /\ [][PairNext]_vars

\* C38: after two successive toggleLike(U, C) calls on an existing item C that
\* both succeeded, with no other operation in between, the two liked values are
\* negations of each other, and the Like relation and C.like_count are what
\* they were before the first call.
C38_ToggleTwiceRestores ==
  pairLog.calls = 2 =>
    /\ pairLog.liked[2] = ~pairLog.liked[1]
    /\ LikeRelation = pairLog.before
    /\ ContentTable(pairLog.content_type)[pairLog.content_id].like_count = pairLog.like_count

\* u2 unliked and liked track 1 again, which u1 likes too
C38_Witness ==
  /\ pairLog.calls = 2
  /\ pairLog.user_id = "u2"
  /\ pairLog.liked = <<FALSE, TRUE>>
  /\ <<"u1", "track", 1>> \in LikeRelation
  /\ <<"u2", "track", 1>> \in LikeRelation
  /\ tracks[1].like_count = 2

\* ------------------------------------------------------- my application
\* the applications of an account; ids are issued in the order of submission
ApplicationsOf(uid) == {a \in DOMAIN applications : applications[a].user_id = uid}

\* the most recently submitted of a set of applications
Latest(apps) == CHOOSE a \in apps : \A b \in apps : b <= a

\* applicationService.getUserApplication: SELECT ... WHERE user_id = :userId
\* ORDER BY submitted_at DESC, read with maybeSingle(), which answers an error
\* when the query returns more than one row; any error becomes
\* AppError('Failed to fetch application')
getUserApplication(userId, dbError) ==
  /\ listResp' =
       IF dbError \/ Cardinality(ApplicationsOf(userId)) > 1
       THEN ListResp("getUserApplication", "Failed to fetch application", <<>>, NULL, FALSE)
       ELSE IF ApplicationsOf(userId) = {}
       THEN ListResp("getUserApplication", "ok", <<>>, NULL, FALSE)
       ELSE ListResp("getUserApplication", "ok", <<Latest(ApplicationsOf(userId))>>, NULL, FALSE)
  /\ UNCHANGED <<dbVars, notList>>

\* GET /api/applications/me
getMyApplication(uid) == \E dbError \in BOOLEAN : getUserApplication(uid, dbError)

\* the listener u2 submits, the admin reviews, u2 asks for its application
MyApplicationNext ==
  \/ submitCreatorApplication_check(1, "u2", StoredBody)
  \/ submitCreatorApplication_insert(1)
  \/ \E op \in ReviewOps, app \in ApplicationIdInputs, decision \in {"approved", "rejected"} :
        review_fetch(1, op, "a1", app, decision, NoNotes)
  \/ review_updateApp(1)
  \/ rejectCreatorApplication_update(1)
  \/ review_updateRole(1)
  \/ getMyApplication("u2")

SpecMyApplication == Init /\ [][MyApplicationNext]_vars

\* C39: when the caller has two or more applications and the store answers,
\* getUserApplication succeeds and returns the caller's most recently
\* submitted application.
C39_LatestApplicationReturned ==
  [][(getUserApplication("u2", FALSE) /\ Cardinality(ApplicationsOf("u2")) >= 2)
       => /\ listResp'.result = "ok"
          /\ listResp'.items = <<Latest(ApplicationsOf("u2"))>>]_vars

\* ------------------------------------------------ signup and the waitlist
\* authController.signup -> supabase.auth.signUp -> trigger handle_new_user:
\* INSERT INTO users (id, 'listener', 'waitlisted', NOW()) and INSERT INTO
\* profiles (id, username, display_name), both fields being required by the
\* controller; any error of the
\* trigger (profiles.username is UNIQUE) is caught, which undoes both inserts
signup(id, username, display_name) ==
  /\ id \notin DOMAIN users
  /\ \E authError \in BOOLEAN :
       IF authError \/ (\E p \in DOMAIN profiles : profiles[p].username = username)
       THEN UNCHANGED <<users, profiles, clock>>
       ELSE /\ users' = users @@ (id :> UserRow("listener", "waitlisted", Now))
            /\ profiles' = profiles @@ (id :> [username |-> username, display_name |-> display_name])
            /\ clock' = clock + 1
  /\ UNCHANGED <<applications, tracks, reels, likes, storage, likeSeq, appSeq, objSeq,
                 toggleReq, appReq, batchReq, profileReq, adminResp, createResp,
                 contentResp, socialVars, readVars, mailVars, authVars, histVars>>

\* a store holding the admin only
InitSignup ==
  /\ InitReqs
  /\ users = ("a1" :> [UserRow("admin", "active", 1) EXCEPT !.approved_at = 1])
  /\ profiles = ("a1" :> [username |-> "a1", display_name |-> NULL])
  /\ applications = <<>>
  /\ tracks = <<>>
  /\ reels = <<>>
  /\ likes = {}
  /\ storage = {}
  /\ clock = 2
  /\ likeSeq = 1
  /\ appSeq = 1
  /\ objSeq = 1

\* accounts sign up, under a free or a taken username, while the admin sends
\* batch approvals
WaitlistNext ==
  \/ \E id \in Listeners : \E username \in {id, "a1"}, display_name \in {9} :
        signup(id, username, display_name)
  \/ \E r \in Slots, count \in BatchCounts : batchApproveUsers_select(r, "a1", count)
  \/ \E r \in Slots : batchApproveUsers_update(r)

\* the write of a batch whose store answers
batchApproveUsers_written(r) == batchApproveUsers_update(r) /\ batchReq'[r].result = "ok"

\* every handler runs to its end and the store does not fail forever
SpecWaitlist ==
  /\ InitSignup
  /\ [][WaitlistNext]_vars
  /\ \A r \in Slots : SF_vars(batchApproveUsers_written(r))

\* a batch write activates no account while an earlier-created one still waits
FifoFair ==
  [][\A r \in Slots :
       (batchReq[r].pc = "update" /\ batchReq'[r].pc = "done") =>
          \A x \in DOMAIN users :
            (users[x].status # "active" /\ users'[x].status = "active") =>
               \A w \in DOMAIN users :
                  users'[w].status = "waitlisted" => users[w].created_at >= users[x].created_at]_vars

\* batchApproveUsers is invoked again and again with a count of the set
InvokedRepeatedly(counts) ==
  []<><<\E r \in Slots, count \in counts : batchApproveUsers_select(r, "a1", count)>>_vars

\* every waiting account is eventually active, unless it was banned
StarvationFree ==
  \A u \in Listeners :
    (u \in DOMAIN users /\ users[u].status = "waitlisted")
       ~> (u \in DOMAIN users /\ users[u].status \in {"active", "banned"})

====
